---- MODULE Spec2Model ----
(***************************************************************************)
(* The step-trace engine of the algorithm visualizer: the sorting          *)
(* routines (src/algorithms/sorting.ts), the graph routines                *)
(* (src/algorithms/graph.ts) and the pathfinding routines                  *)
(* (src/algorithms/pathfinding.ts).  Each routine is a synchronous pure    *)
(* function from an input to a list of Steps; it is written here as an     *)
(* operator that computes the list the way the code does, and one action   *)
(* per routine applies it to the input held in the state.                  *)
(*                                                                         *)
(* JavaScript arrays that the code indexes (the array being sorted) are    *)
(* functions on 0..n-1, so that the indices recorded in a Step are the     *)
(* code's indices.  Lists that are only appended to and iterated (steps,   *)
(* queues, mst) are sequences.  An object reference is the object's        *)
(* identity: a grid cell is its <<row, col>>, a graph edge carries the     *)
(* position it has in graph.edges as its id.                               *)
(***************************************************************************)
EXTENDS Integers, Sequences, FiniteSets, TLC

VARIABLES
    algorithmType,  \* which engine the input belongs to: "sorting", "graph", "pathfinding"
    array,          \* the caller's array (sorting)
    graph,          \* the caller's graph (graph engine)
    grid,           \* the caller's grid of cells (pathfinding); the routines write to it
    algorithm,      \* the routine that has been run, "none" before the call
    steps,          \* the trace the routine returned
    \* the state of a visualizer page (pages/*Visualizer.tsx); its array, graph
    \* or grid is the variable of that name above
    selectedAlgorithm,  \* the routine chosen in the select box
    isRunning,          \* playback is on: the interval timer is installed
    currentStep,        \* index of the Step shown
    totalSteps,         \* index of the last Step of the stored trace
    stepsRef,           \* stepsRef.current: the stored trace
    isVisited,          \* the cells of the page's grid drawn as visited
    isPath,             \* the cells of the page's grid drawn as path
    generated,          \* history: the array the last Reset (or the mount) generated
    readIndex           \* history: the largest index of stepsRef.current the last
                        \* handler read, -1 when it read none

engineVars == <<algorithmType, array, graph, grid, algorithm, steps>>

pageVars == <<selectedAlgorithm, isRunning, currentStep, totalSteps, stepsRef,
              isVisited, isPath, generated, readIndex>>

vars == <<engineVars, pageVars>>

(***************************************************************************)
(* Bounds of the model.                                                    *)
(***************************************************************************)
MaxLen == 3
MaxVal == 3
MaxNodes == 3
MaxEdges == 3
MaxWeight == 3
MaxRows == 3
MaxCols == 5
MaxCells == 10
MaxWalls == 2

(***************************************************************************)
(* General helpers.                                                        *)
(***************************************************************************)
Last(s) == s[Len(s)]

\* a plausible slip: the sorted copy is dropped and the array is used as it was
SortSkipped(s, key) == s

\* Array.prototype.sort with a comparator a.key - b.key: a stable sort.  key is
\* a function on the elements of s; s has no element twice.
StableSortBy(s, key) ==
    LET n == Len(s)
        rank(i) == Cardinality({j \in 1..n : key[s[j]] < key[s[i]]})
                   + Cardinality({j \in 1..(i - 1) : key[s[j]] = key[s[i]]}) + 1
    IN  [r \in 1..n |-> s[CHOOSE i \in 1..n : rank(i) = r]]

\* JavaScript's Infinity: larger than every finite value of a run, and absorbing
\* under addition (Plus).
Infinity == 1000000

Plus(a, b) == IF a >= Infinity \/ b >= Infinity THEN Infinity ELSE a + b

Range(s) == {s[x] : x \in DOMAIN s}

includes(s, e) == \E x \in DOMAIN s : s[x] = e

(***************************************************************************)
(* Sorting engine, src/algorithms/sorting.ts.                              *)
(* The running state of a routine is [arr, steps]: its working copy and    *)
(* the steps pushed so far.                                                *)
(***************************************************************************)
length(arr) == Cardinality(DOMAIN arr)

SortStep(arr, comparing, swapped) ==
    [array |-> arr, comparingIndices |-> comparing, swappedIndices |-> swapped]

\* a plausible slip: array: arr in place of array: [...arr], so that every
\* Step recorded holds the working array itself and shows its latest contents
pushStepAliased(st, comparing, swapped) ==
    [st EXCEPT !.steps = Append([x \in DOMAIN @ |-> [@[x] EXCEPT !.array = st.arr]],
                                SortStep(st.arr, comparing, swapped))]

pushStep(st, comparing, swapped) ==
    [st EXCEPT !.steps = Append(@, SortStep(st.arr, comparing, swapped))]

\* a plausible slip: the second assignment of the exchange is missing
swapLosing(arr, i, j) == [arr EXCEPT ![i] = arr[j]]

swap(arr, i, j) == [arr EXCEPT ![i] = arr[j], ![j] = arr[i]]

\* a plausible slip: every pass runs over the whole array (j < n - 1)
RECURSIVE bubbleInnerFullPass(_, _, _, _)
bubbleInnerFullPass(st, n, i, j) ==
    IF ~(j < n - 1) THEN st
    ELSE LET s1 == pushStep(st, <<j, j + 1>>, <<>>)
             s2 == IF s1.arr[j] > s1.arr[j + 1]
                   THEN pushStep([s1 EXCEPT !.arr = swap(s1.arr, j, j + 1)],
                                 <<>>, <<j, j + 1>>)
                   ELSE s1
         IN  bubbleInnerFullPass(s2, n, i, j + 1)

RECURSIVE bubbleInner(_, _, _, _)
bubbleInner(st, n, i, j) ==
    IF ~(j < n - i - 1) THEN st
    ELSE LET s1 == pushStep(st, <<j, j + 1>>, <<>>)
             s2 == IF s1.arr[j] > s1.arr[j + 1]
                   THEN pushStep([s1 EXCEPT !.arr = swap(s1.arr, j, j + 1)],
                                 <<>>, <<j, j + 1>>)
                   ELSE s1
         IN  bubbleInner(s2, n, i, j + 1)

RECURSIVE bubbleOuter(_, _, _)
bubbleOuter(st, n, i) ==
    IF i < n - 1 THEN bubbleOuter(bubbleInner(st, n, i, 0), n, i + 1) ELSE st

bubbleSort(a) ==
    bubbleOuter([arr |-> a, steps |-> <<>>], length(a), 0).steps

\* the for loop of partition; ps = [arr, steps, i]
RECURSIVE partitionLoop(_, _, _, _)
partitionLoop(ps, pivot, j, high) ==
    IF ~(j < high) THEN ps
    ELSE LET s1 == pushStep(ps, <<j, high>>, <<>>)
             s2 == IF s1.arr[j] < pivot
                   THEN LET i1 == s1.i + 1
                        IN  pushStep([s1 EXCEPT !.i = i1, !.arr = swap(s1.arr, i1, j)],
                                     <<>>, <<i1, j>>)
                   ELSE s1
         IN  partitionLoop(s2, pivot, j + 1, high)

\* returns [arr, steps, i]; the pivot index the code returns is i + 1
partition(st, low, high) ==
    LET pivot == st.arr[high]
        ps == partitionLoop([arr |-> st.arr, steps |-> st.steps, i |-> low - 1],
                            pivot, low, high)
    IN  pushStep([ps EXCEPT !.arr = swap(ps.arr, ps.i + 1, high)],
                 <<>>, <<ps.i + 1, high>>)

RECURSIVE quickSortHelper(_, _, _)
quickSortHelper(st, low, high) ==
    IF low < high
    THEN LET p == partition(st, low, high)
             pi == p.i + 1
             s1 == quickSortHelper([arr |-> p.arr, steps |-> p.steps], low, pi - 1)
         IN  quickSortHelper(s1, pi + 1, high)
    ELSE st

quickSort(a) ==
    quickSortHelper([arr |-> a, steps |-> <<>>], 0, length(a) - 1).steps

\* arr.slice(from, to): a fresh array, indexed from 0
slice(arr, from, to) == [x \in 0..(to - from - 1) |-> arr[from + x]]

\* the three while loops of merge; ms = [arr, steps, i, j, k]
RECURSIVE mergeLoop(_, _, _, _, _)
mergeLoop(ms, leftArr, rightArr, left, mid) ==
    IF ms.i < length(leftArr) /\ ms.j < length(rightArr)
    THEN LET s1 == pushStep(ms, <<left + ms.i, mid + 1 + ms.j>>, <<>>)
             s2 == IF leftArr[s1.i] <= rightArr[s1.j]
                   THEN [s1 EXCEPT !.arr[s1.k] = leftArr[s1.i], !.i = @ + 1]
                   ELSE [s1 EXCEPT !.arr[s1.k] = rightArr[s1.j], !.j = @ + 1]
             s3 == pushStep(s2, <<>>, <<s2.k>>)
         IN  mergeLoop([s3 EXCEPT !.k = @ + 1], leftArr, rightArr, left, mid)
    ELSE IF ms.i < length(leftArr)
    THEN LET s1 == pushStep([ms EXCEPT !.arr[ms.k] = leftArr[ms.i]], <<>>, <<ms.k>>)
         IN  mergeLoop([s1 EXCEPT !.i = @ + 1, !.k = @ + 1], leftArr, rightArr, left, mid)
    ELSE IF ms.j < length(rightArr)
    THEN LET s1 == pushStep([ms EXCEPT !.arr[ms.k] = rightArr[ms.j]], <<>>, <<ms.k>>)
         IN  mergeLoop([s1 EXCEPT !.j = @ + 1, !.k = @ + 1], leftArr, rightArr, left, mid)
    ELSE ms

merge(st, left, mid, right) ==
    LET leftArr == slice(st.arr, left, mid + 1)
        rightArr == slice(st.arr, mid + 1, right + 1)
        ms == mergeLoop([arr |-> st.arr, steps |-> st.steps, i |-> 0, j |-> 0, k |-> left],
                        leftArr, rightArr, left, mid)
    IN  [arr |-> ms.arr, steps |-> ms.steps]

RECURSIVE mergeSortHelper(_, _, _)
mergeSortHelper(st, left, right) ==
    IF left < right
    THEN LET mid == (left + right) \div 2
             s1 == mergeSortHelper(st, left, mid)
             s2 == mergeSortHelper(s1, mid + 1, right)
         IN  merge(s2, left, mid, right)
    ELSE st

mergeSort(a) ==
    mergeSortHelper([arr |-> a, steps |-> <<>>], 0, length(a) - 1).steps

RECURSIVE heapify(_, _, _)
heapify(st, n, i) ==
    LET left == 2 * i + 1
        right == 2 * i + 2
        s1 == pushStep(st, SelectSeq(<<i, left, right>>, LAMBDA x : x < n), <<>>)
        l1 == IF left < n /\ s1.arr[left] > s1.arr[i] THEN left ELSE i
        largest == IF right < n /\ s1.arr[right] > s1.arr[l1] THEN right ELSE l1
    IN  IF largest # i
        THEN heapify(pushStep([s1 EXCEPT !.arr = swap(s1.arr, i, largest)],
                              <<>>, <<i, largest>>),
                     n, largest)
        ELSE s1

\* Build max heap
RECURSIVE heapBuild(_, _)
heapBuild(st, i) ==
    IF i >= 0 THEN heapBuild(heapify(st, length(st.arr), i), i - 1) ELSE st

\* Extract elements from heap one by one
RECURSIVE heapExtract(_, _)
heapExtract(st, i) ==
    IF i > 0
    THEN LET s1 == pushStep([st EXCEPT !.arr = swap(st.arr, 0, i)], <<>>, <<0, i>>)
         IN  heapExtract(heapify(s1, i, 0), i - 1)
    ELSE st

heapSort(a) ==
    LET s0 == [arr |-> a, steps |-> <<>>]
        s1 == heapBuild(s0, (length(a) \div 2) - 1)
    IN  heapExtract(s1, length(a) - 1).steps

SortingAlgorithms == {"bubble", "quick", "merge", "heap"}

\* the name -> routine table of the sorting page
runSorting(name, a) ==
    CASE name = "bubble" -> bubbleSort(a)
      [] name = "quick" -> quickSort(a)
      [] name = "merge" -> mergeSort(a)
      [] name = "heap" -> heapSort(a)

(***************************************************************************)
(* Graph engine, src/algorithms/graph.ts.                                  *)
(* A graph is [nodes, edges]: nodes the list of node ids, edges the list   *)
(* of [id, source, target, weight], id being the edge's position in        *)
(* graph.edges (the identity of the edge object).                          *)
(***************************************************************************)
\* class DisjointSet: [parent, rank], both functions on the vertices made so far
newDisjointSet == [parent |-> <<>>, rank |-> <<>>]

makeSet(ds, vertex) ==
    [parent |-> [v \in DOMAIN ds.parent \cup {vertex} |->
                    IF v = vertex THEN vertex ELSE ds.parent[v]],
     rank |-> [v \in DOMAIN ds.rank \cup {vertex} |->
                    IF v = vertex THEN 0 ELSE ds.rank[v]]]

\* a plausible slip: the vertex is returned, not the root of its set
findSelf(ds, vertex) == [ds |-> ds, root |-> vertex]

\* find with path compression: returns [ds, root]
RECURSIVE find(_, _)
find(ds, vertex) ==
    IF ds.parent[vertex] # vertex
    THEN LET r == find(ds, ds.parent[vertex])
         IN  [ds |-> [r.ds EXCEPT !.parent[vertex] = r.root], root |-> r.root]
    ELSE [ds |-> ds, root |-> vertex]

union(ds, vertex1, vertex2) ==
    LET f1 == find(ds, vertex1)
        f2 == find(f1.ds, vertex2)
        d == f2.ds
        root1 == f1.root
        root2 == f2.root
    IN  IF root1 # root2
        THEN IF d.rank[root1] < d.rank[root2]
             THEN [d EXCEPT !.parent[root1] = root2]
             ELSE IF d.rank[root1] > d.rank[root2]
             THEN [d EXCEPT !.parent[root2] = root1]
             ELSE [d EXCEPT !.parent[root2] = root1, !.rank[root1] = @ + 1]
        ELSE d

RECURSIVE makeSets(_, _, _)
makeSets(ds, nodes, x) ==
    IF x > Len(nodes) THEN ds ELSE makeSets(makeSet(ds, nodes[x]), nodes, x + 1)

\* the for loop of kruskal; ks = [ds, mst, steps]
RECURSIVE kruskalLoop(_, _, _)
kruskalLoop(ks, sortedEdges, x) ==
    IF x > Len(sortedEdges) THEN ks
    ELSE LET edge == sortedEdges[x]
             f1 == find(ks.ds, edge.source)
             f2 == find(f1.ds, edge.target)
             s1 == [ks EXCEPT !.ds = f2.ds,
                              !.steps = Append(@, [visitedNodes |-> <<edge.source, edge.target>>,
                                                   visitedEdges |-> <<edge>>,
                                                   mst |-> ks.mst])]
             s2 == IF f1.root # f2.root
                   THEN LET mst1 == Append(s1.mst, edge)
                        IN  [ds |-> union(s1.ds, edge.source, edge.target),
                             mst |-> mst1,
                             steps |-> Append(s1.steps,
                                              [visitedNodes |-> <<edge.source, edge.target>>,
                                               visitedEdges |-> <<edge>>,
                                               mst |-> mst1])]
                   ELSE s1
         IN  kruskalLoop(s2, sortedEdges, x + 1)

kruskal(g) ==
    LET ds == makeSets(newDisjointSet, g.nodes, 1)
        sortedEdges == StableSortBy(g.edges, [e \in Range(g.edges) |-> e.weight])
    IN  kruskalLoop([ds |-> ds, mst |-> <<>>, steps |-> <<>>], sortedEdges, 1).steps

\* Set.prototype.add on a Set kept in insertion order
setAdd(s, e) == IF includes(s, e) THEN s ELSE Append(s, e)

\* a plausible slip: the edges of the new node are not added to the frontier
setAddNone(s, es, x) == s

RECURSIVE setAddAll(_, _, _)
setAddAll(s, es, x) ==
    IF x > Len(es) THEN s ELSE setAddAll(setAdd(s, es[x]), es, x + 1)

\* Set.prototype.delete of the element at position x
setDeleteAt(s, x) == [y \in 1..(Len(s) - 1) |-> IF y < x THEN s[y] ELSE s[y + 1]]

\* a plausible slip: the first crossing edge is taken, not the lightest
primFirstEdge(edges, visited, x, minEdge, minWeight) ==
    IF \E y \in DOMAIN edges :
           includes(visited, edges[y].source) # includes(visited, edges[y].target)
    THEN CHOOSE y \in DOMAIN edges :
           /\ includes(visited, edges[y].source) # includes(visited, edges[y].target)
           /\ \A z \in 1..(y - 1) :
                includes(visited, edges[z].source) = includes(visited, edges[z].target)
    ELSE 0

\* "Find the minimum weight edge": the position in edges of minEdge, 0 for null
RECURSIVE primMinEdge(_, _, _, _, _)
primMinEdge(edges, visited, x, minEdge, minWeight) ==
    IF x > Len(edges) THEN minEdge
    ELSE LET edge == edges[x]
             sourceVisited == includes(visited, edge.source)
             targetVisited == includes(visited, edge.target)
             take == /\ edge.weight < minWeight
                     /\ \/ sourceVisited /\ ~targetVisited
                        \/ ~sourceVisited /\ targetVisited
         IN  primMinEdge(edges, visited, x + 1,
                         IF take THEN x ELSE minEdge,
                         IF take THEN edge.weight ELSE minWeight)

\* the while loop of prim; ps = [visited, edges, mst, steps]
RECURSIVE primLoop(_, _)
primLoop(ps, g) ==
    IF ~(Len(ps.edges) > 0) THEN ps
    ELSE LET m == primMinEdge(ps.edges, ps.visited, 1, 0, Infinity)
         IN  IF m = 0 THEN ps
             ELSE LET minEdge == ps.edges[m]
                      newNode == IF includes(ps.visited, minEdge.source)
                                 THEN minEdge.target ELSE minEdge.source
                      visited1 == setAdd(ps.visited, newNode)
                      edges1 == setDeleteAt(ps.edges, m)
                      mst1 == Append(ps.mst, minEdge)
                      steps1 == Append(ps.steps, [visitedNodes |-> visited1,
                                                  visitedEdges |-> <<minEdge>>,
                                                  mst |-> mst1])
                      incident == SelectSeq(g.edges,
                                    LAMBDA e : /\ (e.source = newNode \/ e.target = newNode)
                                               /\ ~includes(mst1, e))
                  IN  primLoop([visited |-> visited1,
                                edges |-> setAddAll(edges1, incident, 1),
                                mst |-> mst1,
                                steps |-> steps1], g)

prim(g) ==
    IF Len(g.nodes) = 0 THEN <<>>
    ELSE LET first == g.nodes[1]
             incident == SelectSeq(g.edges, LAMBDA e : e.source = first \/ e.target = first)
         IN  primLoop([visited |-> <<first>>, edges |-> incident,
                       mst |-> <<>>, steps |-> <<>>], g).steps

\* a plausible slip: an edge is entered only in the direction it is written
initDistancesDirected(g) ==
    [i \in Range(g.nodes) |->
        [j \in Range(g.nodes) |->
            IF i = j THEN 0
            ELSE LET found == {x \in DOMAIN g.edges :
                                 g.edges[x].source = i /\ g.edges[x].target = j}
                 IN  IF found # {}
                     THEN g.edges[CHOOSE x \in found : \A y \in found : x <= y].weight
                     ELSE Infinity]]

\* "Initialize distances": dist[i][j]
initDistances(g) ==
    [i \in Range(g.nodes) |->
        [j \in Range(g.nodes) |->
            IF i = j THEN 0
            ELSE LET found == {x \in DOMAIN g.edges :
                                 \/ g.edges[x].source = i /\ g.edges[x].target = j
                                 \/ g.edges[x].source = j /\ g.edges[x].target = i}
                 IN  IF found # {}
                     THEN g.edges[CHOOSE x \in found : \A y \in found : x <= y].weight
                     ELSE Infinity]]

\* the distances object of a Step: the key `${source.id}->${target.id}` is the
\* pair <<source, target>>
distancesSnapshot(dist, nodes) ==
    [p \in Range(nodes) \X Range(nodes) |-> dist[p[1]][p[2]]]

\* a plausible slip: the intermediate node is counted as one more unit of weight
throughKOneMore(dist, i, j, k) == Plus(Plus(dist[i][k], dist[k][j]), 1)

\* const throughK = dist[i.id][k.id] + dist[k.id][j.id]
throughK(dist, i, j, k) == Plus(dist[i][k], dist[k][j])

\* a plausible slip: the Step is pushed after the if, for every triple visited
RECURSIVE floydWarshallLoopEveryTriple(_, _, _)
floydWarshallLoopEveryTriple(fs, nodes, t) ==
    LET n == Len(nodes)
    IN  IF t >= n * n * n THEN fs
        ELSE LET k == nodes[(t \div (n * n)) + 1]
                 i == nodes[((t \div n) % n) + 1]
                 j == nodes[(t % n) + 1]
                 through == throughK(fs.dist, i, j, k)
                 d == IF through < fs.dist[i][j]
                      THEN [fs.dist EXCEPT ![i][j] = through] ELSE fs.dist
             IN  floydWarshallLoopEveryTriple(
                     [dist |-> d,
                      steps |-> Append(fs.steps,
                                       [visitedNodes |-> <<i, j, k>>,
                                        visitedEdges |-> <<>>,
                                        distances |-> distancesSnapshot(d, nodes)])],
                     nodes, t + 1)

\* the three nested forEach of floydWarshall, k outermost, as one count t over
\* the triples; fs = [dist, steps]
RECURSIVE floydWarshallLoop(_, _, _)
floydWarshallLoop(fs, nodes, t) ==
    LET n == Len(nodes)
    IN  IF t >= n * n * n THEN fs
        ELSE LET k == nodes[(t \div (n * n)) + 1]
                 i == nodes[((t \div n) % n) + 1]
                 j == nodes[(t % n) + 1]
                 through == throughK(fs.dist, i, j, k)
             IN  IF through < fs.dist[i][j]
                 THEN LET d == [fs.dist EXCEPT ![i][j] = through]
                      IN  floydWarshallLoop(
                              [dist |-> d,
                               steps |-> Append(fs.steps,
                                                [visitedNodes |-> <<i, j, k>>,
                                                 visitedEdges |-> <<>>,
                                                 distances |-> distancesSnapshot(d, nodes)])],
                              nodes, t + 1)
                 ELSE floydWarshallLoop(fs, nodes, t + 1)

floydWarshall(g) ==
    floydWarshallLoop([dist |-> initDistances(g), steps |-> <<>>], g.nodes, 0).steps

GraphAlgorithms == {"kruskal", "prim", "floydWarshall"}

\* the name -> routine table of the graph page
runGraph(name, g) ==
    CASE name = "kruskal" -> kruskal(g)
      [] name = "prim" -> prim(g)
      [] name = "floydWarshall" -> floydWarshall(g)

(***************************************************************************)
(* Pathfinding engine, src/algorithms/pathfinding.ts.                      *)
(* A grid is [rows, cols, cells]; cells maps <<row, col>> to the Node at   *)
(* grid[row][col]: [isWall, isStart, isEnd, distance, previousNode].  A    *)
(* reference to a Node is its <<row, col>>, null is <<>>.  A routine       *)
(* writes distance and previousNode into the grid it is given, so it       *)
(* returns [grid, steps]: the grid as it leaves it and the trace.          *)
(***************************************************************************)
null == <<>>

\* grid.flat(): the cells in row-major order
flat(g) == [x \in 1..(g.rows * g.cols) |-> <<(x - 1) \div g.cols, (x - 1) % g.cols>>]

\* grid.flat().find(node => node.isStart), null for undefined
findStart(g) ==
    LET s == SelectSeq(flat(g), LAMBDA p : g.cells[p].isStart)
    IN  IF s = <<>> THEN null ELSE s[1]

findEnd(g) ==
    LET s == SelectSeq(flat(g), LAMBDA p : g.cells[p].isEnd)
    IN  IF s = <<>> THEN null ELSE s[1]

getNeighbors(node, g) ==
    LET row == node[1]
        col == node[2]
        neighbors == (IF row > 0 THEN <<<<row - 1, col>>>> ELSE <<>>)
                     \o (IF row < g.rows - 1 THEN <<<<row + 1, col>>>> ELSE <<>>)
                     \o (IF col > 0 THEN <<<<row, col - 1>>>> ELSE <<>>)
                     \o (IF col < g.cols - 1 THEN <<<<row, col + 1>>>> ELSE <<>>)
    IN  SelectSeq(neighbors, LAMBDA p : ~g.cells[p].isWall)

Abs(x) == IF x < 0 THEN -x ELSE x

getDistance(nodeA, nodeB) == Abs(nodeA[1] - nodeB[1]) + Abs(nodeA[2] - nodeB[2])

\* a plausible slip: the cells are pushed, not unshifted, as the links are walked
RECURSIVE getPathPushed(_, _)
getPathPushed(g, endNode) ==
    IF endNode = null THEN <<>>
    ELSE <<endNode>> \o getPathPushed(g, g.cells[endNode].previousNode)

RECURSIVE getPath(_, _)
getPath(g, endNode) ==
    IF endNode = null THEN <<>>
    ELSE Append(getPath(g, g.cells[endNode].previousNode), endNode)

PathStep(visited, path) == [visited |-> visited, path |-> path]

\* the reset loops at the head of the routines
resetDistanceAndPrevious(g) ==
    [g EXCEPT !.cells = [p \in DOMAIN g.cells |->
                            [g.cells[p] EXCEPT !.distance = Infinity, !.previousNode = null]]]

resetPrevious(g) ==
    [g EXCEPT !.cells = [p \in DOMAIN g.cells |->
                            [g.cells[p] EXCEPT !.previousNode = null]]]

\* a plausible slip: the test is distance <= neighbor.distance, so that a later
\* neighbour of equal distance takes over as predecessor
dijkstraRelaxOnEqual(g, currentNode, neighbors) ==
    LET distance == Plus(g.cells[currentNode].distance, 1)
    IN  [g EXCEPT !.cells = [p \in DOMAIN g.cells |->
            IF includes(neighbors, p) /\ distance <= g.cells[p].distance
            THEN [g.cells[p] EXCEPT !.distance = distance, !.previousNode = currentNode]
            ELSE g.cells[p]]]

\* the relaxation loop of dijkstra over the neighbours of currentNode (the
\* neighbours are distinct cells, so the loop is one simultaneous update)
dijkstraRelax(g, currentNode, neighbors) ==
    LET distance == Plus(g.cells[currentNode].distance, 1)
    IN  [g EXCEPT !.cells = [p \in DOMAIN g.cells |->
            IF includes(neighbors, p) /\ distance < g.cells[p].distance
            THEN [g.cells[p] EXCEPT !.distance = distance, !.previousNode = currentNode]
            ELSE g.cells[p]]]

\* the while loop of dijkstra; st = [grid, unvisitedNodes, steps]
RECURSIVE dijkstraLoop(_, _)
dijkstraLoop(st, endNode) ==
    IF Len(st.unvisitedNodes) = 0 THEN st
    ELSE LET sorted == StableSortBy(st.unvisitedNodes,
                          [p \in Range(st.unvisitedNodes) |-> st.grid.cells[p].distance])
             currentNode == Head(sorted)
         IN  IF st.grid.cells[currentNode].distance = Infinity
             THEN [st EXCEPT !.unvisitedNodes = Tail(sorted)]
             ELSE IF currentNode = endNode
             THEN [st EXCEPT !.unvisitedNodes = Tail(sorted),
                             !.steps = Append(@, PathStep(<<currentNode>>,
                                                          getPath(st.grid, endNode)))]
             ELSE dijkstraLoop(
                    [grid |-> dijkstraRelax(st.grid, currentNode,
                                            getNeighbors(currentNode, st.grid)),
                     unvisitedNodes |-> Tail(sorted),
                     steps |-> Append(st.steps, PathStep(<<currentNode>>, <<>>))],
                    endNode)

dijkstra(g) ==
    LET startNode == findStart(g)
        endNode == findEnd(g)
    IN  IF startNode = null \/ endNode = null THEN [grid |-> g, steps |-> <<>>]
        ELSE LET g1 == resetDistanceAndPrevious(g)
                 g2 == [g1 EXCEPT !.cells[startNode].distance = 0]
                 r == dijkstraLoop([grid |-> g2, unvisitedNodes |-> flat(g), steps |-> <<>>],
                                   endNode)
             IN  [grid |-> r.grid, steps |-> r.steps]

\* the for loop of astar over the neighbours; st = [grid, openSet, closedSet, steps]
RECURSIVE astarNeighbors(_, _, _, _)
astarNeighbors(st, currentNode, neighbors, x) ==
    IF x > Len(neighbors) THEN st
    ELSE LET neighbor == neighbors[x]
             tentativeDistance == Plus(st.grid.cells[currentNode].distance, 1)
             assigned == [st.grid EXCEPT !.cells[neighbor].previousNode = currentNode,
                                         !.cells[neighbor].distance = tentativeDistance]
         IN  IF includes(st.closedSet, neighbor)
             THEN astarNeighbors(st, currentNode, neighbors, x + 1)
             ELSE IF ~includes(st.openSet, neighbor)
             THEN astarNeighbors([st EXCEPT !.openSet = Append(@, neighbor),
                                            !.grid = assigned],
                                 currentNode, neighbors, x + 1)
             ELSE IF tentativeDistance >= st.grid.cells[neighbor].distance
             THEN astarNeighbors(st, currentNode, neighbors, x + 1)
             ELSE astarNeighbors([st EXCEPT !.grid = assigned],
                                 currentNode, neighbors, x + 1)

\* a plausible slip: the distance so far is left out of the key
fScoreHeuristicOnly(g, nodes, endNode) ==
    [p \in Range(nodes) |-> getDistance(p, endNode)]

\* the sort key of astar and jumpPointSearch: distance + getDistance(node, endNode)
fScore(g, nodes, endNode) ==
    [p \in Range(nodes) |-> Plus(g.cells[p].distance, getDistance(p, endNode))]

RECURSIVE astarLoop(_, _)
astarLoop(st, endNode) ==
    IF ~(Len(st.openSet) > 0) THEN st
    ELSE LET sorted == StableSortBy(st.openSet, fScore(st.grid, st.openSet, endNode))
             currentNode == Head(sorted)
             s1 == [st EXCEPT !.openSet = Tail(sorted),
                              !.closedSet = Append(@, currentNode)]
         IN  IF currentNode = endNode
             THEN [s1 EXCEPT !.steps = Append(@, PathStep(<<currentNode>>,
                                                          getPath(s1.grid, endNode)))]
             ELSE LET s2 == astarNeighbors(s1, currentNode,
                                           getNeighbors(currentNode, s1.grid), 1)
                  IN  astarLoop([s2 EXCEPT !.steps = Append(@, PathStep(<<currentNode>>, <<>>))],
                                endNode)

astar(g) ==
    LET startNode == findStart(g)
        endNode == findEnd(g)
    IN  IF startNode = null \/ endNode = null THEN [grid |-> g, steps |-> <<>>]
        ELSE LET g1 == resetDistanceAndPrevious(g)
                 g2 == [g1 EXCEPT !.cells[startNode].distance = 0]
                 r == astarLoop([grid |-> g2, openSet |-> <<startNode>>,
                                 closedSet |-> <<>>, steps |-> <<>>], endNode)
             IN  [grid |-> r.grid, steps |-> r.steps]

\* the for loop of bfs, dfs over the neighbours; st = [grid, frontier, visited, steps],
\* frontier being the queue of bfs and the stack of dfs
RECURSIVE discoverNeighbors(_, _, _, _)
discoverNeighbors(st, currentNode, neighbors, x) ==
    IF x > Len(neighbors) THEN st
    ELSE LET neighbor == neighbors[x]
         IN  IF ~includes(st.visited, neighbor)
             THEN discoverNeighbors(
                    [st EXCEPT !.visited = Append(@, neighbor),
                               !.grid.cells[neighbor].previousNode = currentNode,
                               !.frontier = Append(@, neighbor)],
                    currentNode, neighbors, x + 1)
             ELSE discoverNeighbors(st, currentNode, neighbors, x + 1)

\* a plausible slip: the break after the Step of the end is missing, so that
\* the loop goes on with the neighbours of the end and the rest of the queue
RECURSIVE bfsLoopNoBreak(_, _)
bfsLoopNoBreak(st, endNode) ==
    IF Len(st.frontier) = 0 THEN st
    ELSE LET currentNode == Head(st.frontier)
             s1 == [st EXCEPT !.frontier = Tail(@)]
             s2 == IF currentNode = endNode
                   THEN [s1 EXCEPT !.steps = Append(@, PathStep(<<currentNode>>,
                                                                getPath(s1.grid, endNode)))]
                   ELSE s1
             s3 == discoverNeighbors(s2, currentNode,
                                     getNeighbors(currentNode, s2.grid), 1)
         IN  bfsLoopNoBreak([s3 EXCEPT !.steps = Append(@, PathStep(<<currentNode>>, <<>>))],
                            endNode)

RECURSIVE bfsLoop(_, _)
bfsLoop(st, endNode) ==
    IF Len(st.frontier) = 0 THEN st
    ELSE LET currentNode == Head(st.frontier)
             s1 == [st EXCEPT !.frontier = Tail(@)]
         IN  IF currentNode = endNode
             THEN [s1 EXCEPT !.steps = Append(@, PathStep(<<currentNode>>,
                                                          getPath(s1.grid, endNode)))]
             ELSE LET s2 == discoverNeighbors(s1, currentNode,
                                              getNeighbors(currentNode, s1.grid), 1)
                  IN  bfsLoop([s2 EXCEPT !.steps = Append(@, PathStep(<<currentNode>>, <<>>))],
                              endNode)

\* a plausible slip: the guard tests the start only
bfsNoEndGuard(g) ==
    LET startNode == findStart(g)
        endNode == findEnd(g)
    IN  IF startNode = null THEN [grid |-> g, steps |-> <<>>]
        ELSE LET r == bfsLoop([grid |-> resetPrevious(g), frontier |-> <<startNode>>,
                               visited |-> <<startNode>>, steps |-> <<>>], endNode)
             IN  [grid |-> r.grid, steps |-> r.steps]

bfs(g) ==
    LET startNode == findStart(g)
        endNode == findEnd(g)
    IN  IF startNode = null \/ endNode = null THEN [grid |-> g, steps |-> <<>>]
        ELSE LET r == bfsLoop([grid |-> resetPrevious(g), frontier |-> <<startNode>>,
                               visited |-> <<startNode>>, steps |-> <<>>], endNode)
             IN  [grid |-> r.grid, steps |-> r.steps]

RECURSIVE dfsLoop(_, _)
dfsLoop(st, endNode) ==
    IF Len(st.frontier) = 0 THEN st
    ELSE LET currentNode == Last(st.frontier)
             s1 == [st EXCEPT !.frontier = SubSeq(@, 1, Len(@) - 1)]
         IN  IF currentNode = endNode
             THEN [s1 EXCEPT !.steps = Append(@, PathStep(<<currentNode>>,
                                                          getPath(s1.grid, endNode)))]
             ELSE LET s2 == discoverNeighbors(s1, currentNode,
                                              getNeighbors(currentNode, s1.grid), 1)
                  IN  dfsLoop([s2 EXCEPT !.steps = Append(@, PathStep(<<currentNode>>, <<>>))],
                              endNode)

\* a plausible slip: the predecessor links are not kept, so that the path
\* walked back from the end is the end alone
dfsUnlinked(g) ==
    LET startNode == findStart(g)
        endNode == findEnd(g)
    IN  IF startNode = null \/ endNode = null THEN [grid |-> g, steps |-> <<>>]
        ELSE LET r == dfsLoop([grid |-> resetPrevious(g), frontier |-> <<startNode>>,
                               visited |-> <<startNode>>, steps |-> <<>>], endNode)
             IN  [grid |-> resetPrevious(g),
                  steps |-> [x \in DOMAIN r.steps |->
                               IF r.steps[x].path = <<>> THEN r.steps[x]
                               ELSE PathStep(r.steps[x].visited, <<endNode>>)]]

dfs(g) ==
    LET startNode == findStart(g)
        endNode == findEnd(g)
    IN  IF startNode = null \/ endNode = null THEN [grid |-> g, steps |-> <<>>]
        ELSE LET r == dfsLoop([grid |-> resetPrevious(g), frontier |-> <<startNode>>,
                               visited |-> <<startNode>>, steps |-> <<>>], endNode)
             IN  [grid |-> r.grid, steps |-> r.steps]

\* a plausible slip: only the closed set is tested, so that a cell already on
\* the open set is pushed again
RECURSIVE greedyNeighborsNoOpenTest(_, _, _, _)
greedyNeighborsNoOpenTest(st, currentNode, neighbors, x) ==
    IF x > Len(neighbors) THEN st
    ELSE LET neighbor == neighbors[x]
         IN  IF includes(st.closedSet, neighbor)
             THEN greedyNeighborsNoOpenTest(st, currentNode, neighbors, x + 1)
             ELSE greedyNeighborsNoOpenTest(
                    [st EXCEPT !.grid.cells[neighbor].previousNode = currentNode,
                               !.openSet = Append(@, neighbor)],
                    currentNode, neighbors, x + 1)

\* the for loop of greedyBestFirst over the neighbours;
\* st = [grid, openSet, closedSet, steps]
RECURSIVE greedyNeighbors(_, _, _, _)
greedyNeighbors(st, currentNode, neighbors, x) ==
    IF x > Len(neighbors) THEN st
    ELSE LET neighbor == neighbors[x]
         IN  IF includes(st.closedSet, neighbor) \/ includes(st.openSet, neighbor)
             THEN greedyNeighbors(st, currentNode, neighbors, x + 1)
             ELSE greedyNeighbors(
                    [st EXCEPT !.grid.cells[neighbor].previousNode = currentNode,
                               !.openSet = Append(@, neighbor)],
                    currentNode, neighbors, x + 1)

RECURSIVE greedyLoop(_, _)
greedyLoop(st, endNode) ==
    IF ~(Len(st.openSet) > 0) THEN st
    ELSE LET sorted == StableSortBy(st.openSet,
                          [p \in Range(st.openSet) |-> getDistance(p, endNode)])
             currentNode == Head(sorted)
             s1 == [st EXCEPT !.openSet = Tail(sorted),
                              !.closedSet = Append(@, currentNode)]
         IN  IF currentNode = endNode
             THEN [s1 EXCEPT !.steps = Append(@, PathStep(<<currentNode>>,
                                                          getPath(s1.grid, endNode)))]
             ELSE LET s2 == greedyNeighbors(s1, currentNode,
                                            getNeighbors(currentNode, s1.grid), 1)
                  IN  greedyLoop([s2 EXCEPT !.steps = Append(@, PathStep(<<currentNode>>, <<>>))],
                                 endNode)

greedyBestFirst(g) ==
    LET startNode == findStart(g)
        endNode == findEnd(g)
    IN  IF startNode = null \/ endNode = null THEN [grid |-> g, steps |-> <<>>]
        ELSE LET g1 == resetPrevious(g)
                 g2 == [g1 EXCEPT !.cells[startNode].distance = 0]
                 r == greedyLoop([grid |-> g2, openSet |-> <<startNode>>,
                                  closedSet |-> <<>>, steps |-> <<>>], endNode)
             IN  [grid |-> r.grid, steps |-> r.steps]

RECURSIVE getReversePath(_, _)
getReversePath(g, node) ==
    IF node = null THEN <<>>
    ELSE <<node>> \o getReversePath(g, g.cells[node].previousNode)

\* the two for loops of bidirectionalSearch over the neighbours: the loop of bfs,
\* on the queue and the visited set of one direction
bidirectionalDiscover(g, queue, visitedSet, node) ==
    discoverNeighbors([grid |-> g, frontier |-> queue, visited |-> visitedSet],
                      node, getNeighbors(node, g), 1)

\* the while loop of bidirectionalSearch; st = [grid, forwardQueue, backwardQueue,
\* forwardVisited, backwardVisited, steps, intersectionNode, forwardPath, backwardPath]
RECURSIVE bidirectionalLoop(_)
bidirectionalLoop(st) ==
    IF ~(Len(st.forwardQueue) > 0 /\ Len(st.backwardQueue) > 0) THEN st
    ELSE LET forwardNode == Head(st.forwardQueue)
             s1 == [st EXCEPT !.forwardQueue = Tail(@)]
         IN  IF includes(s1.backwardVisited, forwardNode)
             THEN [s1 EXCEPT !.intersectionNode = forwardNode,
                             !.forwardPath = getPath(s1.grid, forwardNode),
                             !.backwardPath = getReversePath(s1.grid, forwardNode)]
             ELSE LET f == bidirectionalDiscover(s1.grid, s1.forwardQueue,
                                                 s1.forwardVisited, forwardNode)
                      s2 == [s1 EXCEPT !.grid = f.grid, !.forwardQueue = f.frontier,
                                       !.forwardVisited = f.visited]
                      backwardNode == Head(s2.backwardQueue)
                      s3 == [s2 EXCEPT !.backwardQueue = Tail(@)]
                  IN  IF includes(s3.forwardVisited, backwardNode)
                      THEN [s3 EXCEPT !.intersectionNode = backwardNode,
                                      !.forwardPath = getPath(s3.grid, backwardNode),
                                      !.backwardPath = getReversePath(s3.grid, backwardNode)]
                      ELSE LET b == bidirectionalDiscover(s3.grid, s3.backwardQueue,
                                                          s3.backwardVisited, backwardNode)
                               s4 == [s3 EXCEPT !.grid = b.grid, !.backwardQueue = b.frontier,
                                                !.backwardVisited = b.visited]
                           IN  bidirectionalLoop(
                                 [s4 EXCEPT !.steps = Append(@,
                                     PathStep(s4.forwardVisited \o s4.backwardVisited, <<>>))])

bidirectionalSearch(g) ==
    LET startNode == findStart(g)
        endNode == findEnd(g)
    IN  IF startNode = null \/ endNode = null THEN [grid |-> g, steps |-> <<>>]
        ELSE LET g1 == resetDistanceAndPrevious(g)
                 g2 == [g1 EXCEPT !.cells[startNode].distance = 0]
                 g3 == [g2 EXCEPT !.cells[endNode].distance = 0]
                 r == bidirectionalLoop(
                        [grid |-> g3,
                         forwardQueue |-> <<startNode>>, backwardQueue |-> <<endNode>>,
                         forwardVisited |-> <<startNode>>, backwardVisited |-> <<endNode>>,
                         steps |-> <<>>, intersectionNode |-> null,
                         forwardPath |-> <<>>, backwardPath |-> <<>>])
             IN  IF r.intersectionNode # null
                 THEN [grid |-> r.grid,
                       steps |-> Append(r.steps,
                                   PathStep(r.forwardVisited \o r.backwardVisited,
                                            r.forwardPath \o Tail(r.backwardPath)))]
                 ELSE [grid |-> r.grid, steps |-> r.steps]

directions ==
    << <<-1, -1>>, <<-1, 0>>, <<-1, 1>>,
       <<0, -1>>, <<0, 1>>,
       <<1, -1>>, <<1, 0>>, <<1, 1>> >>

inGrid(g, row, col) == row >= 0 /\ row < g.rows /\ col >= 0 /\ col < g.cols

getDiagonalNeighbors(node, g) ==
    LET cellsAround == [x \in DOMAIN directions |->
                           <<node[1] + directions[x][1], node[2] + directions[x][2]>>]
    IN  SelectSeq(cellsAround, LAMBDA p : inGrid(g, p[1], p[2]) /\ ~g.cells[p].isWall)

\* "Check for forced neighbors" of findJumpPoint: the tests that make it return next
forcedNeighbor(g, nextRow, nextCol, dx, dy) ==
    LET rowOk(r) == r >= 0 /\ r < g.rows
        colOk(c) == c >= 0 /\ c < g.cols
        wall(r, c) == g.cells[<<r, c>>].isWall
    IN  IF dx # 0 /\ dy # 0
        THEN \/ /\ rowOk(nextRow - dx)
                /\ colOk(nextCol + dy)
                /\ ~wall(nextRow - dx, nextCol)
                /\ wall(nextRow - dx, nextCol + dy)
             \/ /\ colOk(nextCol - dy)
                /\ rowOk(nextRow + dx)
                /\ ~wall(nextRow, nextCol - dy)
                /\ wall(nextRow + dx, nextCol - dy)
        ELSE IF dx # 0
        THEN \/ /\ colOk(nextCol + 1)
                /\ rowOk(nextRow + dx)
                /\ ~wall(nextRow, nextCol + 1)
                /\ wall(nextRow + dx, nextCol + 1)
             \/ /\ colOk(nextCol - 1)
                /\ rowOk(nextRow + dx)
                /\ ~wall(nextRow, nextCol - 1)
                /\ wall(nextRow + dx, nextCol - 1)
        ELSE \/ /\ rowOk(nextRow + 1)
                /\ colOk(nextCol + dy)
                /\ ~wall(nextRow + 1, nextCol)
                /\ wall(nextRow + 1, nextCol + dy)
             \/ /\ rowOk(nextRow - 1)
                /\ colOk(nextCol + dy)
                /\ ~wall(nextRow - 1, nextCol)
                /\ wall(nextRow - 1, nextCol + dy)

\* "if (distance < jumpPoint.distance) { ... }" of jumpPointSearch, from a cell
\* `from`; js = [grid, openSet]
jumpRelax(js, from, jumpPoint) ==
    LET distance == Plus(js.grid.cells[from].distance, getDistance(from, jumpPoint))
    IN  IF distance < js.grid.cells[jumpPoint].distance
        THEN [grid |-> [js.grid EXCEPT !.cells[jumpPoint].distance = distance,
                                       !.cells[jumpPoint].previousNode = from],
              openSet |-> IF ~includes(js.openSet, jumpPoint)
                          THEN Append(js.openSet, jumpPoint) ELSE js.openSet]
        ELSE js

\* findJumpPoint writes to the grid and to openSet: it returns [grid, openSet, result]
RECURSIVE findJumpPoint(_, _, _, _)
findJumpPoint(js, current, direction, endNode) ==
    LET dx == direction[1]
        dy == direction[2]
        nextRow == current[1] + dx
        nextCol == current[2] + dy
        next == <<nextRow, nextCol>>
        none == [grid |-> js.grid, openSet |-> js.openSet, result |-> null]
    IN  IF ~inGrid(js.grid, nextRow, nextCol) THEN none
        ELSE IF js.grid.cells[next].isWall THEN none
        ELSE IF next = endNode THEN [none EXCEPT !.result = next]
        ELSE IF forcedNeighbor(js.grid, nextRow, nextCol, dx, dy)
        THEN [none EXCEPT !.result = next]
        ELSE LET r == findJumpPoint(js, next, direction, endNode)
             IN  IF r.result # null
                 THEN LET j == jumpRelax([grid |-> r.grid, openSet |-> r.openSet],
                                         next, r.result)
                      IN  [grid |-> j.grid, openSet |-> j.openSet, result |-> null]
                 ELSE r

\* the for loop of jumpPointSearch over the neighbours;
\* st = [grid, openSet, closedSet, steps]
RECURSIVE jumpNeighbors(_, _, _, _, _)
jumpNeighbors(st, currentNode, neighbors, x, endNode) ==
    IF x > Len(neighbors) THEN st
    ELSE LET neighbor == neighbors[x]
             direction == <<neighbor[1] - currentNode[1], neighbor[2] - currentNode[2]>>
         IN  IF includes(st.closedSet, neighbor)
             THEN jumpNeighbors(st, currentNode, neighbors, x + 1, endNode)
             ELSE LET r == findJumpPoint([grid |-> st.grid, openSet |-> st.openSet],
                                         currentNode, direction, endNode)
                      j == IF r.result # null
                           THEN jumpRelax([grid |-> r.grid, openSet |-> r.openSet],
                                          currentNode, r.result)
                           ELSE [grid |-> r.grid, openSet |-> r.openSet]
                  IN  jumpNeighbors([st EXCEPT !.grid = j.grid, !.openSet = j.openSet],
                                    currentNode, neighbors, x + 1, endNode)

RECURSIVE jumpLoop(_, _)
jumpLoop(st, endNode) ==
    IF ~(Len(st.openSet) > 0) THEN st
    ELSE LET sorted == StableSortBy(st.openSet, fScore(st.grid, st.openSet, endNode))
             currentNode == Head(sorted)
             s1 == [st EXCEPT !.openSet = Tail(sorted),
                              !.closedSet = Append(@, currentNode)]
         IN  IF currentNode = endNode
             THEN [s1 EXCEPT !.steps = Append(@, PathStep(<<currentNode>>,
                                                          getPath(s1.grid, endNode)))]
             ELSE LET s2 == jumpNeighbors(s1, currentNode,
                                          getDiagonalNeighbors(currentNode, s1.grid),
                                          1, endNode)
                  IN  jumpLoop([s2 EXCEPT !.steps = Append(@, PathStep(<<currentNode>>, <<>>))],
                               endNode)

jumpPointSearch(g) ==
    LET startNode == findStart(g)
        endNode == findEnd(g)
    IN  IF startNode = null \/ endNode = null THEN [grid |-> g, steps |-> <<>>]
        ELSE LET g1 == resetDistanceAndPrevious(g)
                 g2 == [g1 EXCEPT !.cells[startNode].distance = 0]
                 r == jumpLoop([grid |-> g2, openSet |-> <<startNode>>,
                                closedSet |-> <<>>, steps |-> <<>>], endNode)
             IN  [grid |-> r.grid,
                  steps |-> IF Len(r.steps) = 0
                            THEN <<PathStep(<<startNode>>, <<>>)>> ELSE r.steps]

\* "Create edges": for every non-wall node, in grid order, an edge to each neighbour
RECURSIVE bellmanFordEdges(_, _, _)
bellmanFordEdges(g, nodes, x) ==
    IF x > Len(nodes) THEN <<>>
    ELSE LET node == nodes[x]
             ns == getNeighbors(node, g)
             out == IF ~g.cells[node].isWall
                    THEN [y \in DOMAIN ns |-> [from |-> node, to |-> ns[y]]]
                    ELSE <<>>
         IN  out \o bellmanFordEdges(g, nodes, x + 1)

\* one pass over the edges; rs = [grid, updated]
RECURSIVE bellmanFordPass(_, _, _)
bellmanFordPass(rs, edges, x) ==
    IF x > Len(edges) THEN rs
    ELSE LET from == edges[x].from
             to == edges[x].to
             d == Plus(rs.grid.cells[from].distance, 1)
         IN  IF d < rs.grid.cells[to].distance
             THEN bellmanFordPass(
                    [grid |-> [rs.grid EXCEPT !.cells[to].distance = d,
                                              !.cells[to].previousNode = from],
                     updated |-> TRUE],
                    edges, x + 1)
             ELSE bellmanFordPass(rs, edges, x + 1)

\* a plausible slip: the loop is left after its first round, updated or not
bellmanFordRoundsOnce(g, edges, i, n) ==
    IF ~(i < n - 1) THEN g
    ELSE bellmanFordPass([grid |-> g, updated |-> FALSE], edges, 1).grid

\* for (let i = 0; i < nodes.length - 1; i++) { ...; if (!updated) break; }
RECURSIVE bellmanFordRounds(_, _, _, _)
bellmanFordRounds(g, edges, i, n) ==
    IF ~(i < n - 1) THEN g
    ELSE LET rs == bellmanFordPass([grid |-> g, updated |-> FALSE], edges, 1)
         IN  IF ~rs.updated THEN rs.grid
             ELSE bellmanFordRounds(rs.grid, edges, i + 1, n)

bellmanFord(g) ==
    LET nodes == flat(g)
        startNode == findStart(g)
        endNode == findEnd(g)
    IN  IF startNode = null \/ endNode = null THEN [grid |-> g, steps |-> <<>>]
        ELSE LET g1 == resetDistanceAndPrevious(g)
                 g2 == [g1 EXCEPT !.cells[startNode].distance = 0]
                 edges == bellmanFordEdges(g2, nodes, 1)
                 g3 == bellmanFordRounds(g2, edges, 0, Len(nodes))
                 negativeCycle == \E x \in DOMAIN edges :
                     Plus(g3.cells[edges[x].from].distance, 1) < g3.cells[edges[x].to].distance
             IN  IF negativeCycle THEN [grid |-> g3, steps |-> <<>>]
                 ELSE [grid |-> g3,
                       steps |-> <<PathStep(getReversePath(g3, endNode),
                                            getPath(g3, endNode))>>]

PathfindingAlgorithms ==
    {"dijkstra", "astar", "bfs", "dfs", "greedyBestFirst", "bidirectional",
     "jumpPointSearch", "bellmanFord"}

\* the name -> routine table of the pathfinding page
runPathfinding(name, g) ==
    CASE name = "dijkstra" -> dijkstra(g)
      [] name = "astar" -> astar(g)
      [] name = "bfs" -> bfs(g)
      [] name = "dfs" -> dfs(g)
      [] name = "greedyBestFirst" -> greedyBestFirst(g)
      [] name = "bidirectional" -> bidirectionalSearch(g)
      [] name = "jumpPointSearch" -> jumpPointSearch(g)
      [] name = "bellmanFord" -> bellmanFord(g)

(***************************************************************************)
(* The state machine.                                                      *)
(***************************************************************************)
NoGraph == [nodes |-> <<>>, edges |-> <<>>]
NoGrid == [rows |-> 0, cols |-> 0, cells |-> <<>>]

\* no page is mounted: the routines are called directly
NoPage ==
    /\ selectedAlgorithm = "none"
    /\ isRunning = FALSE
    /\ currentStep = 0
    /\ totalSteps = 0
    /\ stepsRef = <<>>
    /\ isVisited = {}
    /\ isPath = {}
    /\ generated = <<>>
    /\ readIndex = -1

Arrays == UNION {[0..(n - 1) -> 1..MaxVal] : n \in 0..MaxLen}

InitSorting ==
    /\ algorithmType = "sorting"
    /\ array \in Arrays
    /\ graph = NoGraph
    /\ grid = NoGrid
    /\ algorithm = "none"
    /\ steps = <<>>
    /\ NoPage

Sort(name) ==
    /\ algorithmType = "sorting"
    /\ algorithm = "none"
    /\ algorithm' = name
    /\ steps' = runSorting(name, array)
    /\ UNCHANGED <<algorithmType, array, graph, grid>>
    /\ UNCHANGED pageVars

BubbleSort == Sort("bubble")
QuickSort == Sort("quick")
MergeSort == Sort("merge")
HeapSort == Sort("heap")

NextSorting == BubbleSort \/ QuickSort \/ MergeSort \/ HeapSort

SpecSorting == InitSorting /\ [][NextSorting]_vars

\* node ids as generateRandomGraph writes them: "0", "1", ...
NodeId(x) == ToString(x - 1)

NodeIds(n) == {NodeId(x) : x \in 1..n}

\* the graph of n nodes whose edge list is f, a list of [source, target, weight]
Graph(n, f) ==
    [nodes |-> [x \in 1..n |-> NodeId(x)],
     edges |-> [x \in DOMAIN f |-> [id |-> x, source |-> f[x].source,
                                    target |-> f[x].target, weight |-> f[x].weight]]]

InitGraph ==
    /\ algorithmType = "graph"
    /\ array = <<>>
    /\ \E n \in 0..MaxNodes, m \in 0..MaxEdges :
         \E f \in [1..m -> [source : NodeIds(n), target : NodeIds(n),
                            weight : 1..MaxWeight]] :
            graph = Graph(n, f)
    /\ grid = NoGrid
    /\ algorithm = "none"
    /\ steps = <<>>
    /\ NoPage

RunGraph(name) ==
    /\ algorithmType = "graph"
    /\ algorithm = "none"
    /\ algorithm' = name
    /\ steps' = runGraph(name, graph)
    /\ UNCHANGED <<algorithmType, array, graph, grid>>
    /\ UNCHANGED pageVars

Kruskal == RunGraph("kruskal")
Prim == RunGraph("prim")
FloydWarshall == RunGraph("floydWarshall")

NextGraph == Kruskal \/ Prim \/ FloydWarshall

SpecGraph == InitGraph /\ [][NextGraph]_vars

\* createNode: a fresh cell
createNode(isWall, isStart, isEnd) ==
    [isWall |-> isWall, isStart |-> isStart, isEnd |-> isEnd,
     distance |-> Infinity, previousNode |-> null]

Positions(rows, cols) == (0..(rows - 1)) \X (0..(cols - 1))

\* a fresh grid: start and end are cells or null (missing), walls any cells
Grid(rows, cols, start, end, walls) ==
    [rows |-> rows, cols |-> cols,
     cells |-> [p \in Positions(rows, cols) |->
                  createNode(p \in walls, p = start, p = end)]]

InitPathfinding ==
    /\ algorithmType = "pathfinding"
    /\ array = <<>>
    /\ graph = NoGraph
    /\ \E rows \in 1..MaxRows, cols \in 1..MaxCols :
         /\ rows * cols <= MaxCells
         /\ \E start \in Positions(rows, cols) \cup {null} :
              \E end \in (Positions(rows, cols) \cup {null})
                           \ (IF start = null THEN {} ELSE {start}) :
                \E walls \in SUBSET Positions(rows, cols) :
                   /\ Cardinality(walls) <= MaxWalls
                   /\ grid = Grid(rows, cols, start, end, walls)
    /\ algorithm = "none"
    /\ steps = <<>>
    /\ NoPage

RunPathfinding(name) ==
    /\ algorithmType = "pathfinding"
    /\ algorithm = "none"
    /\ algorithm' = name
    /\ LET r == runPathfinding(name, grid)
       IN  /\ grid' = r.grid
           /\ steps' = r.steps
    /\ UNCHANGED <<algorithmType, array, graph>>
    /\ UNCHANGED pageVars

Dijkstra == RunPathfinding("dijkstra")
AStar == RunPathfinding("astar")
Bfs == RunPathfinding("bfs")
Dfs == RunPathfinding("dfs")
GreedyBestFirst == RunPathfinding("greedyBestFirst")
BidirectionalSearch == RunPathfinding("bidirectional")
JumpPointSearch == RunPathfinding("jumpPointSearch")
BellmanFord == RunPathfinding("bellmanFord")

NextPathfinding ==
    \/ Dijkstra \/ AStar \/ Bfs \/ Dfs
    \/ GreedyBestFirst \/ BidirectionalSearch \/ JumpPointSearch \/ BellmanFord

SpecPathfinding == InitPathfinding /\ [][NextPathfinding]_vars

Init == InitSorting \/ InitGraph \/ InitPathfinding

Next == NextSorting \/ NextGraph \/ NextPathfinding

Spec == Init /\ [][Next]_vars

(***************************************************************************)
(* The visualizer pages (pages/SortingVisualizer.tsx, GraphVisualizer.tsx, *)
(* PathfindingVisualizer.tsx) and their controls (AlgorithmControls.tsx).  *)
(* The three pages hold the same playback state and their handlers have    *)
(* the same code; they differ in the input they generate, the routines     *)
(* they offer and what showing a Step changes.  algorithmType tells the    *)
(* page, as in the state each page hands to AlgorithmControls.  A handler  *)
(* runs to completion before the next event, so each is one action; the    *)
(* interval timer that playback installs exists exactly while isRunning.   *)
(***************************************************************************)
PageArraySize == 3
PageNodes == 3
PageRows == 2
PageCols == 3
PageWalls == 1

\* generateRandomArray: ARRAY_SIZE values, each drawn from the value range
generateRandomArray == [0..(PageArraySize - 1) -> 1..MaxVal]

\* the pairs i < j in the order the nested loops of generateRandomGraph visit them
nodePairs(n) ==
    LET P == {p \in (1..n) \X (1..n) : p[1] < p[2]}
        rank(p) == Cardinality({q \in P : \/ q[1] < p[1]
                                          \/ q[1] = p[1] /\ q[2] < p[2]}) + 1
    IN  [r \in 1..Cardinality(P) |-> CHOOSE p \in P : rank(p) = r]

\* generateRandomGraph: every pair i < j gets an edge or not (w[p] = 0), with a
\* random weight
generateRandomGraph ==
    {Graph(PageNodes,
           LET chosen == SelectSeq(nodePairs(PageNodes), LAMBDA p : w[p] > 0)
           IN  [x \in DOMAIN chosen |->
                  [source |-> NodeId(chosen[x][1]), target |-> NodeId(chosen[x][2]),
                   weight |-> w[chosen[x]]]]) :
       w \in [{p \in (1..PageNodes) \X (1..PageNodes) : p[1] < p[2]} -> 0..MaxWeight]}

\* createNode of the page: the start and the end lie in the middle row, the
\* start to the left and the end to the right
startCell == <<PageRows \div 2, 0>>
endCell == <<PageRows \div 2, PageCols - 1>>

createInitialGrid == Grid(PageRows, PageCols, startCell, endCell, {})

\* the options of the select box of each page
algorithms ==
    CASE algorithmType = "sorting" -> SortingAlgorithms
      [] algorithmType = "graph" -> GraphAlgorithms
      [] algorithmType = "pathfinding" ->
           {"dijkstra", "astar", "bfs", "dfs", "greedyBestFirst", "bidirectionalSearch"}

\* algorithmMap[selectedAlgorithm](input): the trace, and the grid as the
\* routine leaves it (the pathfinding routines write to the cells they are given)
algorithmMap(name) ==
    CASE algorithmType = "sorting" -> [steps |-> runSorting(name, array), grid |-> grid]
      [] algorithmType = "graph" -> [steps |-> runGraph(name, graph), grid |-> grid]
      [] algorithmType = "pathfinding" ->
           runPathfinding(IF name = "bidirectionalSearch" THEN "bidirectional" ELSE name,
                          grid)

\* what the page draws from its state besides the input: the bars of the
\* array, the marks of the cells
display == [array |-> array, isVisited |-> isVisited, isPath |-> isPath]

\* stepsRef.current[k]; k is an index of JavaScript, from 0
hasStep(k) == k + 1 \in DOMAIN stepsRef
stepAt(k) == stepsRef[k + 1]

SeqToSet(s) == {s[x] : x \in DOMAIN s}

\* showing Step k.  Sorting: setArray(steps[k].array).  Pathfinding:
\* visualizeStep(k) clears every mark, marks the visited cells of Steps 0..k
\* and the path of Step k.  Graph: the Step is drawn on the canvas, no state
\* changes.  Reading a Step that is not there throws before anything is set.
visualizeStep(k) ==
    IF ~hasStep(k) THEN display
    ELSE CASE algorithmType = "sorting" ->
                [display EXCEPT !.array = stepAt(k).array]
           [] algorithmType = "graph" -> display
           [] algorithmType = "pathfinding" ->
                [display EXCEPT
                   !.isVisited = UNION {SeqToSet(stepAt(i).visited) : i \in 0..k},
                   !.isPath = SeqToSet(stepAt(k).path)]

\* a plausible slip: only the lower end of the range is tested
stepOutOfRangeBelowOnly(step, stepsLength) == step < 0

\* the guard of handleStepChange
stepOutOfRange(step, stepsLength) == step < 0 \/ step > stepsLength - 1

\* handleStepChange(step): what it leaves in currentStep and on the display,
\* and the index it read
handleStepChange(step) ==
    IF stepOutOfRange(step, Len(stepsRef))
    THEN [currentStep |-> currentStep, display |-> display, readIndex |-> -1]
    ELSE [currentStep |-> step, display |-> visualizeStep(step), readIndex |-> step]

\* a plausible slip: playback stops one Step early
animateStopsEarly(prevStep, stepsLength) == prevStep >= stepsLength - 2

\* the test of animate that ends playback
animateStops(prevStep, stepsLength) == prevStep >= stepsLength - 1

\* animate, the callback of the interval timer
animate(prevStep) ==
    IF animateStops(prevStep, Len(stepsRef))
    THEN [isRunning |-> FALSE, currentStep |-> prevStep, display |-> display,
          readIndex |-> -1]
    ELSE LET nextStep == prevStep + 1
         IN  [isRunning |-> isRunning, currentStep |-> nextStep,
              display |-> visualizeStep(nextStep), readIndex |-> nextStep]

\* the state of a page as it mounts, apart from its input
InitControls ==
    /\ algorithm = "none"
    /\ steps = <<>>
    /\ isRunning = FALSE
    /\ currentStep = 0
    /\ totalSteps = 0
    /\ stepsRef = <<>>
    /\ isVisited = {}
    /\ isPath = {}
    /\ readIndex = -1

InitSortingPage ==
    /\ algorithmType = "sorting"
    /\ array \in generateRandomArray
    /\ generated = array
    /\ graph = NoGraph
    /\ grid = NoGrid
    /\ selectedAlgorithm = "bubble"
    /\ InitControls

InitGraphPage ==
    /\ algorithmType = "graph"
    /\ array = <<>>
    /\ generated = <<>>
    /\ graph \in generateRandomGraph
    /\ grid = NoGrid
    /\ selectedAlgorithm = "kruskal"
    /\ InitControls

InitPathfindingPage ==
    /\ algorithmType = "pathfinding"
    /\ array = <<>>
    /\ generated = <<>>
    /\ graph = NoGraph
    /\ grid = createInitialGrid
    /\ selectedAlgorithm = "dijkstra"
    /\ InitControls

\* resetArray, resetGraph, resetGrid: a new input, the playback state cleared.
\* setGrid(createInitialGrid()) also clears the marks.
reset ==
    /\ CASE algorithmType = "sorting" ->
              /\ array' \in generateRandomArray
              /\ generated' = array'
              /\ UNCHANGED <<graph, grid, isVisited, isPath>>
         [] algorithmType = "graph" ->
              /\ graph' \in generateRandomGraph
              /\ UNCHANGED <<array, generated, grid, isVisited, isPath>>
         [] algorithmType = "pathfinding" ->
              /\ grid' = createInitialGrid
              /\ isVisited' = {}
              /\ isPath' = {}
              /\ UNCHANGED <<array, generated, graph>>
    /\ isRunning' = FALSE
    /\ currentStep' = 0
    /\ totalSteps' = 0
    /\ stepsRef' = <<>>
    /\ readIndex' = -1
    /\ UNCHANGED <<algorithmType, algorithm, steps>>

\* the Start/Pause button while it reads Start: startVisualization
StartVisualization ==
    /\ ~isRunning
    /\ ~(currentStep > 0 /\ currentStep = totalSteps)
    /\ LET r == algorithmMap(selectedAlgorithm)
       IN  /\ grid' = r.grid
           /\ IF Len(r.steps) = 0
              THEN UNCHANGED <<stepsRef, totalSteps, currentStep, isRunning>>
              ELSE /\ stepsRef' = r.steps
                   /\ totalSteps' = Len(r.steps) - 1
                   /\ currentStep' = 0
                   /\ isRunning' = TRUE
    /\ readIndex' = -1
    /\ UNCHANGED <<algorithmType, array, graph, algorithm, steps, selectedAlgorithm,
                   isVisited, isPath, generated>>

\* the Start/Pause button while it reads Pause
Pause ==
    /\ isRunning
    /\ isRunning' = FALSE
    /\ readIndex' = -1
    /\ UNCHANGED <<engineVars, selectedAlgorithm, currentStep, totalSteps, stepsRef,
                   isVisited, isPath, generated>>

\* the Reset button
Reset ==
    /\ ~isRunning
    /\ reset
    /\ UNCHANGED selectedAlgorithm

\* the select box: another routine is chosen
AlgorithmChange ==
    /\ \E algo \in algorithms \ {selectedAlgorithm} : selectedAlgorithm' = algo
    /\ reset

\* the page's state after a handler that changes the Step shown
showStep(r) ==
    /\ currentStep' = r.currentStep
    /\ array' = r.display.array
    /\ isVisited' = r.display.isVisited
    /\ isPath' = r.display.isPath
    /\ readIndex' = r.readIndex
    /\ UNCHANGED <<algorithmType, graph, grid, algorithm, steps, selectedAlgorithm,
                   totalSteps, stepsRef, generated>>

\* the Previous button
PreviousStep ==
    /\ ~(isRunning \/ currentStep = 0)
    /\ showStep(handleStepChange(currentStep - 1))
    /\ UNCHANGED isRunning

\* the Next button
NextStep ==
    /\ ~(isRunning \/ currentStep = totalSteps)
    /\ showStep(handleStepChange(currentStep + 1))
    /\ UNCHANGED isRunning

\* a tick of the interval timer
Animate ==
    /\ isRunning
    /\ LET r == animate(currentStep)
       IN  /\ isRunning' = r.isRunning
           /\ showStep(r)

\* handleMouseDown, handleMouseEnter: a cell of the grid becomes a wall or stops
\* being one; the copy keeps every other field of every cell
HandleMouseDown ==
    /\ algorithmType = "pathfinding"
    /\ ~isRunning
    /\ \E p \in DOMAIN grid.cells :
         /\ grid' = [grid EXCEPT !.cells[p].isWall = ~@]
         /\ Cardinality({q \in DOMAIN grid.cells : grid'.cells[q].isWall}) <= PageWalls
    /\ readIndex' = -1
    /\ UNCHANGED <<algorithmType, array, graph, algorithm, steps, selectedAlgorithm,
                   isRunning, currentStep, totalSteps, stepsRef, isVisited, isPath,
                   generated>>

NextControls ==
    \/ StartVisualization \/ Pause \/ Reset \/ AlgorithmChange
    \/ PreviousStep \/ NextStep \/ Animate

NextPage == NextControls \/ HandleMouseDown

SpecSortingPage == InitSortingPage /\ [][NextControls]_vars

SpecGraphPage == InitGraphPage /\ [][NextControls]_vars

SpecPathfindingPage == InitPathfindingPage /\ [][NextPage]_vars

InitPage == InitSortingPage \/ InitGraphPage \/ InitPathfindingPage

SpecPage == InitPage /\ [][NextPage]_vars

\* playback left alone: the user acts only while nothing plays, and the timer
\* keeps ticking for as long as it is installed
NextPlayback ==
    \/ StartVisualization \/ Reset \/ (~isRunning /\ AlgorithmChange)
    \/ PreviousStep \/ NextStep \/ HandleMouseDown \/ Animate

SpecPlayback == InitPage /\ [][NextPlayback]_vars /\ WF_vars(Animate)

(***************************************************************************)
(* Properties of the traces.                                               *)
(***************************************************************************)
SortingRun == algorithmType = "sorting" /\ algorithm # "none"
GraphRun == algorithmType = "graph" /\ algorithm # "none"
PathfindingRun == algorithmType = "pathfinding" /\ algorithm # "none"

Sorted(a) == \A x, y \in DOMAIN a : x <= y => a[x] <= a[y]

Count(a, v) == Cardinality({x \in DOMAIN a : a[x] = v})

IsPermutation(a, b) ==
    /\ DOMAIN a = DOMAIN b
    /\ \A v \in Range(a) \cup Range(b) : Count(a, v) = Count(b, v)

\* C1: for an input of at least 2 elements and each of the four sorting
\* routines, the array of the last Step of the trace is the input arranged in
\* non-decreasing order: it is sorted and holds the same multiset of values.
C1_LastStepIsInputSorted ==
    (SortingRun /\ length(array) >= 2) =>
        /\ Len(steps) > 0
        /\ Sorted(Last(steps).array)
        /\ IsPermutation(Last(steps).array, array)

C1_Witness ==
    /\ SortingRun
    /\ length(array) = 3
    /\ ~Sorted(array)
    /\ Len(steps) > 0
    /\ Sorted(Last(steps).array)
    /\ IsPermutation(Last(steps).array, array)

\* C2: for each of the four sorting routines the array of every Step of the
\* trace, the intermediate ones included, is a permutation of the input.
C2_EveryStepIsPermutation ==
    SortingRun => \A x \in DOMAIN steps : IsPermutation(steps[x].array, array)

\* the cells the search can stand on, reached from `from` by moves to non-wall
\* cells; diagonal tells whether the diagonal moves of jumpPointSearch count
Movable(g, p, q, diagonal) ==
    /\ q \in DOMAIN g.cells
    /\ ~g.cells[q].isWall
    /\ p # q
    /\ Abs(p[1] - q[1]) <= 1
    /\ Abs(p[2] - q[2]) <= 1
    /\ diagonal \/ Abs(p[1] - q[1]) + Abs(p[2] - q[2]) = 1

RECURSIVE ReachableSet(_, _, _)
ReachableSet(g, S, diagonal) ==
    LET T == S \cup {q \in DOMAIN g.cells : \E p \in S : Movable(g, p, q, diagonal)}
    IN  IF T = S THEN S ELSE ReachableSet(g, T, diagonal)

HasEndpoints(g) == findStart(g) # null /\ findEnd(g) # null

\* the end is reachable from the start by orthogonal moves through non-wall cells
EndReachable(g) ==
    HasEndpoints(g) /\ findEnd(g) \in ReachableSet(g, {findStart(g)}, FALSE)

\* the end is walled off: not reachable by any move a routine makes, the
\* diagonal ones of jumpPointSearch included
EndWalledOff(g) ==
    HasEndpoints(g) /\ findEnd(g) \notin ReachableSet(g, {findStart(g)}, TRUE)

\* C3: on a grid whose end cannot be reached from the start, no Step of the
\* trace of any of the eight pathfinding routines carries a non-empty path.
C3_UnreachableEndNoPath ==
    (/\ PathfindingRun
     /\ EndWalledOff(grid)
     /\ ~grid.cells[findStart(grid)].isWall
     /\ ~grid.cells[findEnd(grid)].isWall) =>
        \A x \in DOMAIN steps : steps[x].path = <<>>

\* C4: degenerate inputs give an empty trace: a grid without start or without
\* end for the eight pathfinding routines, an array of length 0 for the four
\* sorting routines, a graph of 0 nodes for the three graph routines.
C4_DegenerateInputEmptyTrace ==
    /\ (PathfindingRun /\ ~HasEndpoints(grid)) => steps = <<>>
    /\ (SortingRun /\ length(array) = 0) => steps = <<>>
    /\ (GraphRun /\ Len(graph.nodes) = 0) => steps = <<>>

C4_Witness ==
    /\ PathfindingRun
    /\ algorithm = "bfs"
    /\ findStart(grid) # null
    /\ findEnd(grid) = null
    /\ steps = <<>>

\* the number of edges of the path of the last Step of a trace
PathEdges(trace) == Len(Last(trace).path) - 1

HasPath(trace) == Len(trace) > 0 /\ Len(Last(trace).path) > 0

\* C5: on a grid whose end is reachable from its start (neither a wall), the
\* path of the last Step of bfs has at most as many edges as the path of the
\* last Step of dfs on the same grid.
C5_BfsPathNotLongerThanDfs ==
    (/\ PathfindingRun
     /\ algorithm = "bfs"
     /\ EndReachable(grid)
     /\ ~grid.cells[findStart(grid)].isWall) =>
        /\ HasPath(steps)
        /\ HasPath(dfs(grid).steps)
        /\ PathEdges(steps) <= PathEdges(dfs(grid).steps)

C5_Witness ==
    /\ PathfindingRun
    /\ algorithm = "bfs"
    /\ EndReachable(grid)
    /\ ~grid.cells[findStart(grid)].isWall
    /\ HasPath(steps)
    /\ HasPath(dfs(grid).steps)
    /\ PathEdges(steps) < PathEdges(dfs(grid).steps)

\* C6: on a grid whose end is reachable from its start, the paths of dijkstra
\* and of astar have the same number of edges, and that number is at most the
\* number of edges of the path of greedyBestFirst.
C6_DijkstraAstarEqualGreedyNotShorter ==
    (/\ PathfindingRun
     /\ algorithm = "dijkstra"
     /\ EndReachable(grid)) =>
        /\ HasPath(steps)
        /\ HasPath(astar(grid).steps)
        /\ HasPath(greedyBestFirst(grid).steps)
        /\ PathEdges(steps) = PathEdges(astar(grid).steps)
        /\ PathEdges(steps) <= PathEdges(greedyBestFirst(grid).steps)

C6_Witness ==
    /\ PathfindingRun
    /\ algorithm = "dijkstra"
    /\ EndReachable(grid)
    /\ HasPath(steps)
    /\ PathEdges(steps) = PathEdges(astar(grid).steps)
    /\ PathEdges(steps) < PathEdges(greedyBestFirst(grid).steps)

RECURSIVE TotalWeight(_)
TotalWeight(edges) ==
    IF edges = <<>> THEN 0 ELSE Head(edges).weight + TotalWeight(Tail(edges))

\* the nodes joined to a node of S by the edges es, S included
RECURSIVE JoinedTo(_, _)
JoinedTo(S, es) ==
    LET T == S \cup {e.target : e \in {d \in es : d.source \in S}}
                \cup {e.source : e \in {d \in es : d.target \in S}}
    IN  IF T = S THEN S ELSE JoinedTo(T, es)

Spans(nodes, es) == nodes = {} \/ \E v \in nodes : JoinedTo({v}, es) = nodes

Connected(g) == Spans(Range(g.nodes), Range(g.edges))

Components(nodes, es) == {JoinedTo({v}, es) : v \in nodes}

\* a forest: no edge closes a cycle (a self-loop and a second edge between two
\* nodes each close one)
IsForest(nodes, edges) ==
    Len(edges) = Cardinality(nodes) - Cardinality(Components(nodes, Range(edges)))

SpanningTrees(g) ==
    {T \in SUBSET Range(g.edges) :
        /\ Cardinality(T) = Len(g.nodes) - 1
        /\ Spans(Range(g.nodes), T)}

SetWeight(T) == TotalWeight(CHOOSE q \in [1..Cardinality(T) -> T] : Range(q) = T)

MinimumSpanningTrees(g) ==
    {T \in SpanningTrees(g) : \A U \in SpanningTrees(g) : SetWeight(T) <= SetWeight(U)}

UniqueMst(g) == Cardinality(MinimumSpanningTrees(g)) = 1

\* C7: on a connected graph of at least 2 nodes with a unique minimum spanning
\* tree, the mst of the last Step of kruskal and the mst of the last Step of
\* prim have the same total weight.
C7_KruskalPrimSameWeight ==
    (/\ GraphRun
     /\ algorithm = "kruskal"
     /\ Len(graph.nodes) >= 2
     /\ Connected(graph)
     /\ UniqueMst(graph)) =>
        /\ Len(steps) > 0
        /\ Len(prim(graph)) > 0
        /\ TotalWeight(Last(steps).mst) = TotalWeight(Last(prim(graph)).mst)

C7_Witness ==
    /\ GraphRun
    /\ algorithm = "kruskal"
    /\ Len(graph.nodes) = 3
    /\ Len(graph.edges) = 3
    /\ Cardinality(SpanningTrees(graph)) = 3
    /\ UniqueMst(graph)
    /\ Len(Last(steps).mst) = 2
    /\ TotalWeight(Last(steps).mst) = TotalWeight(Last(prim(graph)).mst)

\* C8: on a connected graph of n >= 2 nodes the mst of the last Step of
\* kruskal has exactly n - 1 edges, and the mst of every Step is a forest over
\* the nodes of the graph, whatever self-loops and parallel edges the input has.
C8_KruskalMstIsSpanningForest ==
    (/\ GraphRun
     /\ algorithm = "kruskal"
     /\ Len(graph.nodes) >= 2
     /\ Connected(graph)) =>
        /\ Len(steps) > 0
        /\ Len(Last(steps).mst) = Len(graph.nodes) - 1
        /\ \A x \in DOMAIN steps : IsForest(Range(graph.nodes), steps[x].mst)

C8_Witness ==
    /\ GraphRun
    /\ algorithm = "kruskal"
    /\ Len(graph.nodes) = 3
    /\ Connected(graph)
    /\ \E x \in DOMAIN graph.edges : graph.edges[x].source = graph.edges[x].target
    /\ Len(Last(steps).mst) = 2
    /\ \A x \in DOMAIN steps : IsForest(Range(graph.nodes), steps[x].mst)

TriangleInequality(nodes, distances) ==
    \A i, j, k \in nodes :
        distances[<<i, j>>] <= Plus(distances[<<i, k>>], distances[<<k, j>>])

\* C9: when floydWarshall emits at least one Step, the distances of the last
\* Step satisfy dist(i,j) <= dist(i,k) + dist(k,j) for all nodes i, j, k, a
\* pair that is not connected having distance Infinity.
C9_LastDistancesTriangleInequality ==
    (/\ GraphRun
     /\ algorithm = "floydWarshall"
     /\ Len(steps) > 0) =>
        TriangleInequality(Range(graph.nodes), Last(steps).distances)

C9_Witness ==
    /\ GraphRun
    /\ algorithm = "floydWarshall"
    /\ Len(graph.nodes) = 3
    /\ Len(steps) >= 2
    /\ TriangleInequality(Range(graph.nodes), Last(steps).distances)

\* at most one edge per unordered pair of nodes
SimpleGraph(g) ==
    \A x, y \in DOMAIN g.edges :
        {g.edges[x].source, g.edges[x].target} = {g.edges[y].source, g.edges[y].target}
            => x = y

\* the weight of the edge between a and b, Infinity when there is none
HopWeight(g, a, b) ==
    IF a = b THEN 0
    ELSE LET es == {e \in Range(g.edges) : {e.source, e.target} = {a, b}}
         IN  IF es = {} THEN Infinity ELSE (CHOOSE e \in es : TRUE).weight

RECURSIVE WalkWeight(_, _)
WalkWeight(g, walk) ==
    IF Len(walk) < 2 THEN 0
    ELSE Plus(HopWeight(g, walk[1], walk[2]), WalkWeight(g, Tail(walk)))

\* the weight of a shortest path between i and j: the least weight of a walk
\* from i to j over at most as many nodes as the graph has
ShortestPathWeight(g, i, j) ==
    LET walks == UNION {{w \in [1..m -> Range(g.nodes)] : w[1] = i /\ w[m] = j} :
                        m \in 1..Len(g.nodes)}
        weights == {WalkWeight(g, w) : w \in walks}
    IN  CHOOSE d \in weights : \A e \in weights : d <= e

PathGraphABC ==
    [nodes |-> <<"0", "1", "2">>,
     edges |-> <<[id |-> 1, source |-> "0", target |-> "1", weight |-> 2],
                 [id |-> 2, source |-> "1", target |-> "2", weight |-> 3]>>]

\* C10: on a graph with at most one edge per unordered pair of nodes on which
\* floydWarshall emits at least one Step, the distances of the last Step hold,
\* for every ordered pair (i,j), the weight of a shortest path between i and j
\* (0 when i = j, Infinity when not connected); on the path graph A-B of weight
\* 2, B-C of weight 3 (A, B, C being the nodes "0", "1", "2") dist(A,C) is 5.
C10_LastDistancesAreShortestPaths ==
    (/\ GraphRun
     /\ algorithm = "floydWarshall"
     /\ SimpleGraph(graph)
     /\ Len(steps) > 0) =>
        /\ \A i, j \in Range(graph.nodes) :
              Last(steps).distances[<<i, j>>] = ShortestPathWeight(graph, i, j)
        /\ graph = PathGraphABC => Last(steps).distances[<<"0", "2">>] = 5

C10_Witness ==
    /\ GraphRun
    /\ algorithm = "floydWarshall"
    /\ graph = PathGraphABC
    /\ Len(steps) > 0
    /\ Last(steps).distances[<<"0", "2">>] = 5
    /\ Last(steps).distances[<<"2", "0">>] = 5

\* a grid of exactly two cells, one the start, the other the end, no wall
TwoAdjacentCells(g) ==
    /\ g.rows * g.cols = 2
    /\ HasEndpoints(g)
    /\ \A p \in DOMAIN g.cells : ~g.cells[p].isWall

\* C11: bfs on a grid of two adjacent cells, one the start and the other the
\* end, no walls, returns exactly one Step, whose visited is [end] and whose
\* path is [start, end].
C11_BfsTwoCellsOneStep ==
    (PathfindingRun /\ algorithm = "bfs" /\ TwoAdjacentCells(grid)) =>
        steps = <<PathStep(<<findEnd(grid)>>, <<findStart(grid), findEnd(grid)>>)>>

\* C11 as amended: bfs on that grid returns exactly two Steps, the first for
\* the dequeue of the start, visited [start] and an empty path, the second for
\* the dequeue of the end, visited [end] and path [start, end].
C11_BfsTwoCellsTwoSteps ==
    (PathfindingRun /\ algorithm = "bfs" /\ TwoAdjacentCells(grid)) =>
        steps = <<PathStep(<<findStart(grid)>>, <<>>),
                  PathStep(<<findEnd(grid)>>, <<findStart(grid), findEnd(grid)>>)>>

C11_Witness ==
    /\ PathfindingRun
    /\ algorithm = "bfs"
    /\ TwoAdjacentCells(grid)
    /\ Len(steps) = 2
    /\ steps[2].path = <<findStart(grid), findEnd(grid)>>

\* the array whose elements are those of the sequence s, indexed from 0
ArrayOf(s) == [x \in 0..(Len(s) - 1) |-> s[x + 1]]

IsComparing(s) == s.comparingIndices # <<>>

\* the comparisons of the double loop, in order: pass i = 0..n-2 compares
\* (j, j+1) for j = 0..n-i-2
PassComparisons(n, i) == [x \in 1..(n - 1 - i) |-> <<x - 1, x>>]

RECURSIVE BubbleComparisons(_, _)
BubbleComparisons(n, i) ==
    IF i < n - 1 THEN PassComparisons(n, i) \o BubbleComparisons(n, i + 1) ELSE <<>>

\* the array a Step was recorded on top of: that of the Step before, the input
\* for the first Step
ArrayBefore(x) == IF x = 1 THEN array ELSE steps[x - 1].array

\* C12: the trace of bubbleSort holds, in the order of the double loop, one
\* comparing Step on (j, j+1) per comparison, recorded before the comparison
\* (its array is the array as it was), and a comparing Step is immediately
\* followed by a swapped Step on (j, j+1), with the two exchanged, exactly when
\* the element at j was greater than the one at j+1; nothing else is recorded.
\* For [3,1,2]: compare(0,1), swap(0,1) [1,3,2], compare(1,2), swap(1,2)
\* [1,2,3], compare(0,1).
C12_BubbleSortCompareSwapOrder ==
    (SortingRun /\ algorithm = "bubble") =>
        LET comparing == SelectSeq(steps, IsComparing)
        IN  /\ [x \in DOMAIN comparing |-> comparing[x].comparingIndices]
                 = BubbleComparisons(length(array), 0)
            /\ \A x \in DOMAIN steps :
                 LET s == steps[x]
                 IN  IF IsComparing(s)
                     THEN LET j == s.comparingIndices[1]
                          IN  /\ s.swappedIndices = <<>>
                              /\ s.array = ArrayBefore(x)
                              /\ (s.array[j] > s.array[j + 1]) <=>
                                    /\ x < Len(steps)
                                    /\ ~IsComparing(steps[x + 1])
                                    /\ steps[x + 1].swappedIndices = <<j, j + 1>>
                     ELSE /\ x > 1
                          /\ IsComparing(steps[x - 1])
                          /\ s.swappedIndices = steps[x - 1].comparingIndices
                          /\ s.array = [ArrayBefore(x) EXCEPT
                                          ![s.swappedIndices[1]] = ArrayBefore(x)[s.swappedIndices[2]],
                                          ![s.swappedIndices[2]] = ArrayBefore(x)[s.swappedIndices[1]]]
            /\ array = ArrayOf(<<3, 1, 2>>) =>
                 steps = << SortStep(ArrayOf(<<3, 1, 2>>), <<0, 1>>, <<>>),
                            SortStep(ArrayOf(<<1, 3, 2>>), <<>>, <<0, 1>>),
                            SortStep(ArrayOf(<<1, 3, 2>>), <<1, 2>>, <<>>),
                            SortStep(ArrayOf(<<1, 2, 3>>), <<>>, <<1, 2>>),
                            SortStep(ArrayOf(<<1, 2, 3>>), <<0, 1>>, <<>>) >>

C12_Witness ==
    /\ SortingRun
    /\ algorithm = "bubble"
    /\ array = ArrayOf(<<3, 1, 2>>)
    /\ Len(steps) = 5
    /\ steps[2].swappedIndices = <<0, 1>>
    /\ steps[5].comparingIndices = <<0, 1>>

\* C13: each of the eight pathfinding routines resets distance and previousNode
\* of every cell before it searches, whatever a previous run left in them: run
\* on the grid as a run of dijkstra left it, a routine gives the trace and
\* leaves the cell fields that it gives on that grid with the two fields reset.
C13_EntryPointResetsSearchFields ==
    (PathfindingRun /\ algorithm = "dijkstra" /\ HasEndpoints(grid)) =>
        \A name \in PathfindingAlgorithms :
            runPathfinding(name, grid)
              = runPathfinding(name, resetDistanceAndPrevious(grid))

\* C14: a pathfinding run works on its own copy of the grid: across the call
\* of any of the eight routines every cell of the caller's grid keeps its
\* distance and its previousNode.
C14_CallerGridFieldsUnchanged ==
    [][\A p \in DOMAIN grid.cells :
          /\ grid'.cells[p].distance = grid.cells[p].distance
          /\ grid'.cells[p].previousNode = grid.cells[p].previousNode]_vars

\* every Step of the trace shows the working array as it was when the Step was
\* recorded: a comparing Step the array of the Step before it (the input for
\* the first), a swapped Step on two indices that array with the two
\* exchanged, a swapped Step on one index (a write of mergeSort) that array
\* changed at that index at most
StepsAsRecorded ==
    \A x \in DOMAIN steps :
        LET s == steps[x]
            before == ArrayBefore(x)
        IN  /\ DOMAIN s.array = DOMAIN array
            /\ IF s.swappedIndices = <<>>
               THEN s.array = before
               ELSE IF Len(s.swappedIndices) = 2
               THEN s.array = [before EXCEPT
                                 ![s.swappedIndices[1]] = before[s.swappedIndices[2]],
                                 ![s.swappedIndices[2]] = before[s.swappedIndices[1]]]
               ELSE \A y \in DOMAIN array :
                       y # s.swappedIndices[1] => s.array[y] = before[y]

\* C15: in the four sorting routines a Step already recorded never changes
\* with the later swaps and writes on the working array: when the routine
\* returns, every Step of the trace still shows the array as it was when the
\* Step was recorded, and the caller's input array is as it was before the call.
C15_RecordedStepsNeverChange ==
    [][algorithmType = "sorting" => (array' = array /\ StepsAsRecorded')]_vars

C15_Witness ==
    /\ SortingRun
    /\ algorithm = "heap"
    /\ length(array) = 3
    /\ Len(steps) >= 2
    /\ steps[1].array = array
    /\ Last(steps).array # array
    /\ StepsAsRecorded

\* start and end are present and neither is a wall
EndpointsOpen(g) ==
    /\ HasEndpoints(g)
    /\ ~g.cells[findStart(g)].isWall
    /\ ~g.cells[findEnd(g)].isWall

\* C16: for each of the eight pathfinding routines, on a grid whose start and
\* end are present and not walls, every non-empty path of a Step begins with
\* the start cell and ends with the end cell, and only the last Step of a
\* trace, the one of reaching the goal, has a non-empty path.
C16_PathRunsFromStartToEnd ==
    (PathfindingRun /\ EndpointsOpen(grid)) =>
        \A x \in DOMAIN steps :
            steps[x].path # <<>> =>
                /\ steps[x].path[1] = findStart(grid)
                /\ Last(steps[x].path) = findEnd(grid)
                /\ x = Len(steps)

\* the meeting node bidirectionalSearch finds on g, null when the searches do
\* not meet (the routine resets both fields of every cell, so g may be a grid
\* a run has left)
MeetingNode(g) ==
    LET startNode == findStart(g)
        endNode == findEnd(g)
        g1 == resetDistanceAndPrevious(g)
        g3 == [g1 EXCEPT !.cells[startNode].distance = 0, !.cells[endNode].distance = 0]
    IN  bidirectionalLoop(
            [grid |-> g3,
             forwardQueue |-> <<startNode>>, backwardQueue |-> <<endNode>>,
             forwardVisited |-> <<startNode>>, backwardVisited |-> <<endNode>>,
             steps |-> <<>>, intersectionNode |-> null,
             forwardPath |-> <<>>, backwardPath |-> <<>>]).intersectionNode

\* every two consecutive cells of path are orthogonally adjacent cells of g,
\* and no cell of path is a wall
IsWalk(g, path) ==
    /\ \A x \in DOMAIN path : path[x] \in DOMAIN g.cells /\ ~g.cells[path[x]].isWall
    /\ \A x \in 1..(Len(path) - 1) : getDistance(path[x], path[x + 1]) = 1

\* C17: when bidirectionalSearch finds a meeting node, the path of its final
\* Step starts at the start cell, ends at the end cell, holds the meeting node
\* exactly once, and every two consecutive cells of it are orthogonally
\* adjacent non-wall cells.
C17_BidirectionalPathJoinsAtMeeting ==
    (/\ PathfindingRun
     /\ algorithm = "bidirectional"
     /\ EndpointsOpen(grid)
     /\ MeetingNode(grid) # null) =>
        /\ HasPath(steps)
        /\ LET path == Last(steps).path
           IN  /\ path[1] = findStart(grid)
               /\ Last(path) = findEnd(grid)
               /\ Cardinality({x \in DOMAIN path : path[x] = MeetingNode(grid)}) = 1
               /\ IsWalk(grid, path)

\* the place of cell p in row-major grid order, the order in which dijkstra
\* inserts the cells into unvisitedNodes
RowMajor(g, p) == p[1] * g.cols + p[2]

\* the cell of Step x of a trace of dijkstra, and its distance (the distance of
\* a cell is final once the cell is extracted)
ExtractedCell(x) == steps[x].visited[1]

ExtractedDistance(x) == grid.cells[ExtractedCell(x)].distance

\* the trace begins with the start, and its cells are the cells nearer than the
\* end, and the end: no cell left unvisited had a smaller distance than the one
\* extracted
ExtractsMinimum ==
    /\ Len(steps) > 0
    /\ \A x \in DOMAIN steps : Len(steps[x].visited) = 1
    /\ ExtractedCell(1) = findStart(grid)
    /\ \A x, y \in DOMAIN steps : x < y => ExtractedCell(x) # ExtractedCell(y)
    /\ \A x \in 1..(Len(steps) - 1) : ExtractedDistance(x) <= ExtractedDistance(x + 1)
    /\ \A p \in DOMAIN grid.cells :
         (Len(steps) > 0 /\ grid.cells[p].distance < ExtractedDistance(Len(steps))) =>
            \E x \in DOMAIN steps : ExtractedCell(x) = p

\* C18: every extraction of dijkstra takes a node of minimum tentative distance
\* among the unvisited nodes, and among several of that distance the one
\* inserted earliest into the unvisited set, in row-major grid order: the cells
\* of successive Steps have non-decreasing distance, and cells of equal
\* distance come in row-major order.
C18_DijkstraTiesInInsertionOrder ==
    (PathfindingRun /\ algorithm = "dijkstra" /\ HasEndpoints(grid)) =>
        /\ ExtractsMinimum
        /\ \A x, y \in DOMAIN steps :
             (x < y /\ ExtractedDistance(x) = ExtractedDistance(y)) =>
                RowMajor(grid, ExtractedCell(x)) < RowMajor(grid, ExtractedCell(y))

\* the Step at which the predecessor of the cell of Step x was extracted, 0
\* for the start
PredecessorStep(x) ==
    LET prev == grid.cells[ExtractedCell(x)].previousNode
    IN  IF prev = null THEN 0
        ELSE CHOOSE y \in DOMAIN steps : ExtractedCell(y) = prev

\* C18 as amended: every extraction of dijkstra takes a node of minimum
\* tentative distance among the unvisited nodes, and among several of that
\* distance the one that stands first in the unvisited array as the stable
\* sorts of the earlier extractions left it: the one whose predecessor was
\* extracted earliest, and among those of one predecessor the earliest in
\* row-major order; the cells of successive Steps have non-decreasing distance.
C18_DijkstraTiesInSortedOrder ==
    (PathfindingRun /\ algorithm = "dijkstra" /\ HasEndpoints(grid)) =>
        /\ ExtractsMinimum
        /\ \A x, y \in DOMAIN steps :
             (x < y /\ ExtractedDistance(x) = ExtractedDistance(y)) =>
                \/ PredecessorStep(x) < PredecessorStep(y)
                \/ /\ PredecessorStep(x) = PredecessorStep(y)
                   /\ RowMajor(grid, ExtractedCell(x)) < RowMajor(grid, ExtractedCell(y))

\* two cells of equal distance extracted against row-major order
C18_Witness ==
    /\ PathfindingRun
    /\ algorithm = "dijkstra"
    /\ HasEndpoints(grid)
    /\ \E x, y \in DOMAIN steps :
         /\ x < y
         /\ ExtractedDistance(x) = ExtractedDistance(y)
         /\ PredecessorStep(x) < PredecessorStep(y)
         /\ RowMajor(grid, ExtractedCell(x)) > RowMajor(grid, ExtractedCell(y))

\* every two consecutive cells of path are orthogonally adjacent
IsChain(path) == \A x \in 1..(Len(path) - 1) : getDistance(path[x], path[x + 1]) = 1

\* C19: in the traces of bfs and of dfs every Step has exactly one visited
\* cell, the cell just dequeued or popped, the first being the start; a Step
\* of a cell that is not the end has an empty path; the Step of the end has
\* the path from the start to the end along adjacent cells and is the last
\* Step, whatever the frontier still holds; and no cell is dequeued or popped
\* twice.
C19_BfsDfsOneStepPerCell ==
    (PathfindingRun /\ algorithm \in {"bfs", "dfs"} /\ HasEndpoints(grid)) =>
        /\ Len(steps) > 0
        /\ steps[1].visited = <<findStart(grid)>>
        /\ \A x \in DOMAIN steps :
             /\ Len(steps[x].visited) = 1
             /\ steps[x].visited[1] \in DOMAIN grid.cells
             /\ IF steps[x].visited[1] = findEnd(grid)
                THEN /\ x = Len(steps)
                     /\ Len(steps[x].path) >= 2
                     /\ steps[x].path[1] = findStart(grid)
                     /\ Last(steps[x].path) = findEnd(grid)
                     /\ IsChain(steps[x].path)
                ELSE steps[x].path = <<>>
        /\ \A x, y \in DOMAIN steps : x < y => steps[x].visited # steps[y].visited
        /\ EndReachable(grid) /\ ~grid.cells[findStart(grid)].isWall
             => Last(steps).visited = <<findEnd(grid)>>

\* the end is reached while cells the search could reach are not yet dequeued
C19_Witness ==
    /\ PathfindingRun
    /\ algorithm = "bfs"
    /\ EndReachable(grid)
    /\ ~grid.cells[findStart(grid)].isWall
    /\ Last(steps).visited = <<findEnd(grid)>>
    /\ Len(Last(steps).path) >= 3
    /\ Len(steps) < Cardinality(ReachableSet(grid, {findStart(grid)}, FALSE))

\* C20: in bellmanFord on a grid with start and end present the negative-cycle
\* branch is never taken: when the relaxation loop has ended no edge (from, to),
\* from a non-wall cell to a neighbour of it, has from.distance + 1 <
\* to.distance; the run returns exactly one Step, and the visited cells of that
\* Step are exactly the cells of its path.
C20_BellmanFordNoNegativeCycleOneStep ==
    (PathfindingRun /\ algorithm = "bellmanFord" /\ HasEndpoints(grid)) =>
        /\ \A from \in DOMAIN grid.cells :
             ~grid.cells[from].isWall =>
                \A to \in Range(getNeighbors(from, grid)) :
                    ~(Plus(grid.cells[from].distance, 1) < grid.cells[to].distance)
        /\ Len(steps) = 1
        /\ Range(steps[1].visited) = Range(steps[1].path)
        /\ Len(steps[1].visited) = Len(steps[1].path)

\* a run that needs more than one round: the end lies before the start in the
\* order of the edges
C20_Witness ==
    /\ PathfindingRun
    /\ algorithm = "bellmanFord"
    /\ EndReachable(grid)
    /\ RowMajor(grid, findEnd(grid)) < RowMajor(grid, findStart(grid))
    /\ Len(steps) = 1
    /\ Len(steps[1].path) >= 3
    /\ Range(steps[1].visited) = Range(steps[1].path)

\* C21: in the traces of astar, greedyBestFirst and jumpPointSearch no cell is
\* the visited cell of more than one Step: a cell popped into the closed set is
\* never expanded again, and no cell is popped from the open set twice.
C21_NoCellExpandedTwice ==
    (/\ PathfindingRun
     /\ algorithm \in {"astar", "greedyBestFirst", "jumpPointSearch"}
     /\ HasEndpoints(grid)) =>
        /\ \A x \in DOMAIN steps : Len(steps[x].visited) = 1
        /\ \A x, y \in DOMAIN steps : x < y => steps[x].visited # steps[y].visited

\* a run that expands several cells of which some are neighbours of more than
\* one expanded cell
C21_Witness ==
    /\ PathfindingRun
    /\ algorithm = "greedyBestFirst"
    /\ EndReachable(grid)
    /\ Len(steps) >= 4
    /\ \A x, y \in DOMAIN steps : x < y => steps[x].visited # steps[y].visited

\* Step x of a trace of kruskal is the first Step of its edge
IsDecideStep(x) == x = 1 \/ steps[x].visitedEdges # steps[x - 1].visitedEdges

\* the mst before Step x
MstBefore(x) == IF x = 1 THEN <<>> ELSE steps[x - 1].mst

IsPrefix(s, t) == Len(s) <= Len(t) /\ s = SubSeq(t, 1, Len(s))

\* C22: kruskal visits the edges in non-decreasing order of weight, in input
\* order among equal weights; each edge has one Step whose mst is the mst
\* before the edge is decided, followed at once by a second Step with the edge
\* appended to mst exactly when its endpoints were not yet joined by the mst;
\* the trace has (number of edges + number of mst edges) Steps and every mst
\* snapshot is a prefix of every later one.
C22_KruskalStepsInWeightOrder ==
    (GraphRun /\ algorithm = "kruskal" /\ Len(graph.nodes) > 0) =>
        LET decide == SelectSeq([x \in DOMAIN steps |-> x], IsDecideStep)
            visited == [y \in DOMAIN decide |-> steps[decide[y]].visitedEdges[1]]
        IN  /\ Len(visited) = Len(graph.edges)
            /\ Range(visited) = Range(graph.edges)
            /\ \A y, z \in DOMAIN visited :
                 y < z => \/ visited[y].weight < visited[z].weight
                          \/ /\ visited[y].weight = visited[z].weight
                             /\ visited[y].id < visited[z].id
            /\ \A x \in DOMAIN steps :
                 LET edge == steps[x].visitedEdges[1]
                     joined == edge.target \in JoinedTo({edge.source}, Range(MstBefore(x)))
                 IN  /\ Len(steps[x].visitedEdges) = 1
                     /\ IF IsDecideStep(x)
                        THEN /\ steps[x].mst = MstBefore(x)
                             /\ ~joined <=> /\ x < Len(steps)
                                            /\ ~IsDecideStep(x + 1)
                        ELSE steps[x].mst = Append(MstBefore(x), edge)
            /\ Len(steps) = Len(graph.edges)
                              + (IF Len(steps) = 0 THEN 0 ELSE Len(Last(steps).mst))
            /\ \A x, y \in DOMAIN steps : x <= y => IsPrefix(steps[x].mst, steps[y].mst)

\* three edges given in decreasing order of weight, one of which closes a cycle
C22_Witness ==
    /\ GraphRun
    /\ algorithm = "kruskal"
    /\ Len(graph.edges) = 3
    /\ graph.edges[1].weight > graph.edges[2].weight
    /\ graph.edges[2].weight > graph.edges[3].weight
    /\ Len(steps) = 5
    /\ Len(Last(steps).mst) = 2
    /\ Last(steps).mst[1] = graph.edges[3]

\* the edge e has exactly one endpoint in the node set T
Crossing(e, T) == (e.source \in T) # (e.target \in T)

\* the tree nodes before Step x of a trace of prim
TreeBefore(x) ==
    IF x = 1 THEN {graph.nodes[1]} ELSE Range(steps[x - 1].visitedNodes)

\* the tree nodes at the end of the run
TreeAtEnd ==
    IF Len(steps) = 0 THEN {graph.nodes[1]} ELSE Range(Last(steps).visitedNodes)

\* C23: at every Step of prim the edge just added has minimum weight among
\* the edges of the graph with exactly one endpoint in the tree built so far;
\* visitedNodes is the whole tree, one node more than in the Step before, with
\* |visitedNodes| = |mst| + 1; and the run stops exactly when no edge joins a
\* tree node to a node outside the tree, so that the tree is the component of
\* the first node of the input.
C23_PrimAddsMinimumCrossingEdge ==
    (GraphRun /\ algorithm = "prim" /\ Len(graph.nodes) > 0) =>
        /\ \A x \in DOMAIN steps :
             LET s == steps[x]
                 e == s.visitedEdges[1]
                 T == TreeBefore(x)
             IN  /\ Len(s.visitedEdges) = 1
                 /\ e \in Range(graph.edges)
                 /\ Crossing(e, T)
                 /\ \A d \in Range(graph.edges) : Crossing(d, T) => e.weight <= d.weight
                 /\ Range(s.visitedNodes) = T \cup {e.source, e.target}
                 /\ Len(s.visitedNodes) = Cardinality(T) + 1
                 /\ Len(s.visitedNodes) = Len(s.mst) + 1
                 /\ s.mst = Append(MstBefore(x), e)
        /\ \A d \in Range(graph.edges) : ~Crossing(d, TreeAtEnd)
        /\ TreeAtEnd = JoinedTo({graph.nodes[1]}, Range(graph.edges))

\* a disconnected graph: the tree takes two nodes and leaves the third
C23_Witness ==
    /\ GraphRun
    /\ algorithm = "prim"
    /\ Len(graph.nodes) = 3
    /\ ~Connected(graph)
    /\ Len(steps) = 1
    /\ Len(Last(steps).visitedNodes) = 2
    /\ \E x, y \in DOMAIN graph.edges :
         /\ Crossing(graph.edges[x], {graph.nodes[1]})
         /\ Crossing(graph.edges[y], {graph.nodes[1]})
         /\ graph.edges[x].weight < graph.edges[y].weight

\* the distances before Step x of a trace of floydWarshall: those of the Step
\* before, the initial matrix for the first Step
DistancesBefore(x) ==
    IF x = 1 THEN distancesSnapshot(initDistances(graph), graph.nodes)
    ELSE steps[x - 1].distances

\* some relaxation improves on the initial matrix
InitialImprovable ==
    LET d == initDistances(graph)
    IN  \E i, j, k \in Range(graph.nodes) : Plus(d[i][k], d[k][j]) < d[i][j]

\* C24: floydWarshall emits a Step exactly when a relaxation strictly lowers
\* dist(i,j): the distances of each Step differ from those of the Step before
\* (from the initial matrix for the first) in exactly one ordered pair, the
\* pair (i, j) of the Step, whose value is strictly smaller, so no entry ever
\* grows along the trace; and the trace is empty exactly when no relaxation
\* improves on the initial matrix.
C24_FloydWarshallStepPerImprovement ==
    (GraphRun /\ algorithm = "floydWarshall") =>
        /\ \A x \in DOMAIN steps :
             LET new == steps[x].distances
                 old == DistancesBefore(x)
                 changed == {p \in DOMAIN new : new[p] # old[p]}
             IN  /\ DOMAIN new = DOMAIN old
                 /\ changed = {<<steps[x].visitedNodes[1], steps[x].visitedNodes[2]>>}
                 /\ \A p \in changed : new[p] < old[p]
        /\ \A x, y \in DOMAIN steps :
             x <= y => \A p \in DOMAIN steps[x].distances :
                          steps[y].distances[p] <= steps[x].distances[p]
        /\ steps = <<>> <=> ~InitialImprovable

\* a heavy edge is undercut by the way through the third node, in both directions
C24_Witness ==
    /\ GraphRun
    /\ algorithm = "floydWarshall"
    /\ InitialImprovable
    /\ Len(steps) = 2
    /\ steps[1].visitedNodes[1] = steps[2].visitedNodes[2]
    /\ steps[1].visitedNodes[2] = steps[2].visitedNodes[1]
    /\ \E p \in DOMAIN steps[1].distances :
         /\ steps[1].distances[p] < DistancesBefore(1)[p]
         /\ DistancesBefore(1)[p] < Infinity

\* C25: in every Step of each of the four sorting routines comparingIndices
\* holds no index or exactly two indices, each a valid index of the array.
C25_ComparingIndicesNoneOrTwo ==
    SortingRun =>
        \A x \in DOMAIN steps :
            /\ Len(steps[x].comparingIndices) \in {0, 2}
            /\ Range(steps[x].comparingIndices) \subseteq DOMAIN array

\* C27: on every grid whose end is reachable from the start by orthogonal
\* moves through non-wall cells, the trace of jumpPointSearch ends with a Step
\* whose path starts at the start cell and ends at the end cell.
C27_JumpPointSearchFindsReachableEnd ==
    (/\ PathfindingRun
     /\ algorithm = "jumpPointSearch"
     /\ EndReachable(grid)
     /\ ~grid.cells[findStart(grid)].isWall) =>
        /\ HasPath(steps)
        /\ Last(steps).path[1] = findStart(grid)
        /\ Last(Last(steps).path) = findEnd(grid)


\* the marks visualizeStep leaves for Step k: the visited cells of Steps 0..k
\* and the path of Step k
MarkingOf(k) ==
    [isVisited |-> UNION {SeqToSet(stepAt(i).visited) : i \in 0..k},
     isPath |-> SeqToSet(stepAt(k).path)]

\* C26: on the pathfinding page, while a trace is stored, the cells marked as
\* visited are those visited in Steps 0..currentStep and the cells marked as
\* path are the path of Step currentStep, whether currentStep was reached by
\* Start, by ticks of the timer or by Previous/Next.
C26_MarkingIsUnionUpToStep ==
    (algorithmType = "pathfinding" /\ Len(stepsRef) > 0) =>
        /\ isVisited = MarkingOf(currentStep).isVisited
        /\ isPath = MarkingOf(currentStep).isPath


\* the sorting page shows the final Step of the stored trace
ShowsFinalStep ==
    /\ algorithmType = "sorting"
    /\ Len(stepsRef) > 0
    /\ currentStep = Len(stepsRef) - 1
    /\ readIndex = currentStep

\* C28: on the sorting page, whatever Start, Pause, Previous/Next and ticks
\* come after a Reset, whenever the final Step of a run is shown the displayed
\* array is the array that Reset generated in non-decreasing order: it is
\* sorted and holds the generated values, each as often (a run started again
\* from a paused display loses and duplicates none).
C28_ReplayEndsWithGeneratedSorted ==
    ShowsFinalStep => (Sorted(array) /\ IsPermutation(array, generated))


\* what a handler that ignores its request leaves: nothing changed, no Step read
Ignored == [currentStep |-> currentStep, display |-> display, readIndex |-> -1]

\* C29: on each page, after any interleaving of Start, Pause, Reset, algorithm
\* change, Previous/Next and ticks: currentStep lies in 0..totalSteps;
\* totalSteps is the last index of the stored trace, and 0 when none is stored
\* (after Reset); the last handler read no Step outside the stored trace; and a
\* request for a step below 0 or above the last index changes nothing.
C29_StepIndexWithinTrace ==
    /\ 0 <= currentStep
    /\ currentStep <= totalSteps
    /\ totalSteps = (IF Len(stepsRef) > 0 THEN Len(stepsRef) - 1 ELSE 0)
    /\ readIndex = -1 \/ (readIndex >= 0 /\ hasStep(readIndex))
    /\ \A step \in {-2, -1, Len(stepsRef), Len(stepsRef) + 1} :
          handleStepChange(step) = Ignored

\* playback has run to the last Step of a trace of several Steps and the tick
\* after it has stopped the timer
C29_Witness ==
    /\ algorithmType = "pathfinding"
    /\ Len(stepsRef) > 1
    /\ currentStep = Len(stepsRef) - 1
    /\ ~isRunning
    /\ readIndex = -1
    /\ isVisited = MarkingOf(currentStep).isVisited


\* C30: while playback is on and the user leaves the page alone, a tick at an
\* index below the last index of the stored trace shows the next Step and moves
\* currentStep up by exactly one, and a tick at the last index changes only
\* isRunning, to false; with the timer ticking for as long as it is installed,
\* playback that is on always comes to a stop on the last Step of the trace.
C30_PlaybackRunsToFinalStep ==
    /\ [][isRunning =>
            IF currentStep < Len(stepsRef) - 1
            THEN /\ currentStep' = currentStep + 1
                 /\ readIndex' = currentStep'
                 /\ isRunning'
                 /\ stepsRef' = stepsRef
            ELSE /\ currentStep' = currentStep
                 /\ display' = display
                 /\ ~isRunning'
                 /\ stepsRef' = stepsRef]_vars
    /\ isRunning ~> (/\ ~isRunning
                     /\ Len(stepsRef) > 0
                     /\ currentStep = Len(stepsRef) - 1)

\* a graph trace of at least three Steps has been played to its end
C30_Witness ==
    /\ algorithmType = "graph"
    /\ Len(stepsRef) >= 3
    /\ currentStep = Len(stepsRef) - 1
    /\ totalSteps = currentStep
    /\ ~isRunning
    /\ readIndex = -1

====
